---- MODULE Spec2Model ----
(***************************************************************************)
(* A model of the MacroInt macro interpolator (src/unnamed/part_002).      *)
(*                                                                         *)
(* Texts are sequences of one-character strings.  A JavaScript value is a  *)
(* record [t, s, n]: t is the value's typeof, s its text (strings), n its  *)
(* number (numbers), its truth (booleans: 0 or 1) or its identity in the   *)
(* heap (objects; null is the object with identity 0).                     *)
(***************************************************************************)
EXTENDS Integers, Sequences, FiniteSets, TLC

VARIABLES
    _modifiers,          \* static MacroInt._modifiers: alias -> callback
    _repositories,       \* this._repositories
    _completeExpression, \* this._completeExpression
    _currentExpression,  \* this._currentExpression
    _isOneMacro,         \* this._isOneMacro
    _hasConstant,        \* this._hasConstant
    _propertyPath,       \* this._propertyPath
    _allowUndefined,     \* this._allowUndefined
    _throwErrors,        \* this._throwErrors
    errors,              \* this.errors
    heap,                \* the objects and arrays of the program, by identity
    call,                \* the last call made on the instance or the class
    calls                \* the number of calls made so far

vars == <<_modifiers, _repositories, _completeExpression, _currentExpression,
          _isOneMacro, _hasConstant, _propertyPath, _allowUndefined,
          _throwErrors, errors, heap, call, calls>>

(***************************************************************************)
(* JavaScript values                                                       *)
(***************************************************************************)
Undefined == [t |-> "undefined", s |-> <<>>, n |-> 0]
Null == [t |-> "object", s |-> <<>>, n |-> 0]
Str(s) == [t |-> "string", s |-> s, n |-> 0]
Num(n) == [t |-> "number", s |-> <<>>, n |-> n]
NaN == [t |-> "number", s |-> <<"N", "a", "N">>, n |-> 0]
Bool(b) == [t |-> "boolean", s |-> <<>>, n |-> IF b THEN 1 ELSE 0]
Ref(id) == [t |-> "object", s |-> <<>>, n |-> id]
Fn(name) == [t |-> "function", s |-> <<name>>, n |-> 0]

IsNaN(v) == v.t = "number" /\ v.s # <<>>
\* v == undefined of JavaScript: v is undefined or null
IsNullish(v) == v.t = "undefined" \/ v = Null

(***************************************************************************)
(* String.prototype functions used by the program                          *)
(***************************************************************************)
Min(a, b) == IF a < b THEN a ELSE b
Max(a, b) == IF a < b THEN b ELSE a
Clamp(i, n) == Max(0, Min(i, n))

\* s.substring(a, b): indices from 0, clamped to the text, swapped if a > b
substring(s, a, b) ==
    LET x == Clamp(a, Len(s))
        y == Clamp(b, Len(s))
    IN SubSeq(s, Min(x, y) + 1, Max(x, y))

\* s.substring(a)
substringFrom(s, a) == substring(s, a, Len(s))

\* s.trim(): the only white space of the modelled texts is the blank
trim(s) ==
    LET inked == {i \in 1..Len(s) : s[i] # " "}
    IN IF inked = {} THEN <<>>
       ELSE SubSeq(s, CHOOSE i \in inked : \A j \in inked : i <= j,
                      CHOOSE i \in inked : \A j \in inked : j <= i)

\* s.indexOf(pat): from 0, -1 when pat does not occur
indexOf(s, pat) ==
    LET hits == {i \in 0..(Len(s) - Len(pat)) : SubSeq(s, i + 1, i + Len(pat)) = pat}
    IN IF hits = {} THEN -1 ELSE CHOOSE i \in hits : \A j \in hits : i <= j

\* s.includes(pat)
includes(s, pat) == indexOf(s, pat) > -1

\* s.startsWith(pat)
startsWith(s, pat) == Len(pat) <= Len(s) /\ SubSeq(s, 1, Len(pat)) = pat

\* s.split("."): the texts between the dots
RECURSIVE split(_, _)
split(s, sep) ==
    LET i == indexOf(s, sep)
    IN IF i = -1 THEN <<s>>
       ELSE <<SubSeq(s, 1, i)>> \o split(substringFrom(s, i + Len(sep)), sep)

LowerCase == <<"a", "b", "c", "d", "e", "f", "g", "h", "i", "j", "k", "l", "m", "n", "o", "p", "q", "r", "s", "t", "u", "v", "w", "x", "y", "z">>
UpperCase == <<"A", "B", "C", "D", "E", "F", "G", "H", "I", "J", "K", "L", "M", "N", "O", "P", "Q", "R", "S", "T", "U", "V", "W", "X", "Y", "Z">>
LetterAt(letters, c) == CHOOSE i \in 1..Len(letters) : letters[i] = c
IsLetterOf(letters, c) == \E i \in 1..Len(letters) : letters[i] = c

\* s.toLowerCase() and s.toUpperCase(), for texts of ASCII characters
toLowerCase(s) ==
    [i \in 1..Len(s) |-> IF IsLetterOf(UpperCase, s[i]) THEN LowerCase[LetterAt(UpperCase, s[i])] ELSE s[i]]
toUpperCase(s) ==
    [i \in 1..Len(s) |-> IF IsLetterOf(LowerCase, s[i]) THEN UpperCase[LetterAt(LowerCase, s[i])] ELSE s[i]]

Digits == <<"0", "1", "2", "3", "4", "5", "6", "7", "8", "9">>
DigitValue(c) == (CHOOSE i \in 1..10 : Digits[i] = c) - 1
IsDigit(c) == \E i \in 1..10 : Digits[i] = c

\* the decimal digits of a natural number
RECURSIVE natToString(_)
natToString(n) ==
    IF n < 10 THEN <<Digits[n + 1]>>
    ELSE natToString(n \div 10) \o <<Digits[(n % 10) + 1]>>

RECURSIVE digitsToNat(_)
digitsToNat(s) ==
    IF s = <<>> THEN 0
    ELSE 10 * digitsToNat(SubSeq(s, 1, Len(s) - 1)) + DigitValue(s[Len(s)])

\* Number(text) for texts of digits, signs, blanks and other characters that
\* are no part of a JavaScript numeric literal: the text is trimmed, the
\* empty text is 0, an optionally signed run of digits is its value, every
\* other text is NaN
stringToNumber(s) ==
    LET t == trim(s)
        signed == Len(t) > 0 /\ t[1] \in {"-", "+"}
        body == IF signed THEN Tail(t) ELSE t
    IN IF t = <<>> THEN Num(0)
       ELSE IF body # <<>> /\ \A i \in 1..Len(body) : IsDigit(body[i])
       THEN Num(IF signed /\ t[1] = "-" THEN 0 - digitsToNat(body) ELSE digitsToNat(body))
       ELSE NaN

(***************************************************************************)
(* Objects and arrays.  An object is the sequence of its own enumerable    *)
(* properties in enumeration order; heap[id] is the object of identity id. *)
(***************************************************************************)
Prop(k, v) == [k |-> k, v |-> v]
Obj(props) == [arr |-> FALSE, props |-> props]
Arr(elems) == [arr |-> TRUE, props |-> [i \in 1..Len(elems) |-> Prop(natToString(i - 1), elems[i])]]

hasOwnProperty(o, key) == \E i \in 1..Len(o.props) : o.props[i].k = key

\* o[key] for an object of the heap
ownGet(o, key) ==
    IF hasOwnProperty(o, key)
    THEN o.props[CHOOSE i \in 1..Len(o.props) : o.props[i].k = key].v
    ELSE IF o.arr /\ key = <<"l", "e", "n", "g", "t", "h">> THEN Num(Len(o.props))
    ELSE Undefined

\* o[key] = v: an own property keeps its place, a new one is enumerated last
ownSet(o, key, v) ==
    IF hasOwnProperty(o, key)
    THEN [o EXCEPT !.props = [i \in 1..Len(o.props) |->
                                IF o.props[i].k = key THEN Prop(key, v) ELSE o.props[i]]]
    ELSE [o EXCEPT !.props = Append(@, Prop(key, v))]

\* v[key] for a value that is neither undefined nor null
jsGet(h, v, key) ==
    IF v.t = "object" THEN ownGet(h[v.n], key)
    ELSE IF v.t = "string"
    THEN IF key = <<"l", "e", "n", "g", "t", "h">> THEN Num(Len(v.s))
         ELSE IF key # <<>> /\ (\A i \in 1..Len(key) : IsDigit(key[i]))
                 /\ natToString(digitsToNat(key)) = key /\ digitsToNat(key) < Len(v.s)
         THEN Str(<<v.s[digitsToNat(key) + 1]>>)
         ELSE Undefined
    ELSE Undefined

\* "" + v, the natural string conversion (objects of the model have no
\* toString of their own and arrays hold no array that holds itself)
RECURSIVE stringOf(_, _)
RECURSIVE joinElements(_, _, _)
joinElements(h, props, i) ==
    IF i > Len(props) THEN <<>>
    ELSE (IF i > 1 THEN <<",">> ELSE <<>>)
         \o (IF IsNullish(props[i].v) THEN <<>> ELSE stringOf(h, props[i].v))
         \o joinElements(h, props, i + 1)
stringOf(h, v) ==
    CASE v.t = "string" -> v.s
      [] v.t = "number" ->
            IF IsNaN(v) THEN v.s
            ELSE IF v.n < 0 THEN <<"-">> \o natToString(0 - v.n) ELSE natToString(v.n)
      [] v.t = "boolean" -> IF v.n = 1 THEN <<"t", "r", "u", "e">> ELSE <<"f", "a", "l", "s", "e">>
      [] v.t = "undefined" -> <<"u", "n", "d", "e", "f", "i", "n", "e", "d">>
      [] v.t = "function" -> <<"(", ")", "=", ">">> \o v.s
      [] v.t = "object" ->
            IF v.n = 0 THEN <<"n", "u", "l", "l">>
            ELSE IF h[v.n].arr THEN joinElements(h, h[v.n].props, 1)
            ELSE <<"[", "o", "b", "j", "e", "c", "t", " ", "O", "b", "j", "e", "c", "t", "]">>

\* Number(v)
toNumberValue(h, v) ==
    CASE v.t = "number" -> v
      [] v.t = "boolean" -> Num(v.n)
      [] v.t = "undefined" -> NaN
      [] v.t = "string" -> stringToNumber(v.s)
      [] v.t = "function" -> NaN
      [] v.t = "object" -> IF v.n = 0 THEN Num(0) ELSE stringToNumber(stringOf(h, v))

\* Boolean(v)
toBooleanValue(v) ==
    CASE v.t = "number" -> ~IsNaN(v) /\ v.n # 0
      [] v.t = "boolean" -> v.n = 1
      [] v.t = "undefined" -> FALSE
      [] v.t = "string" -> v.s # <<>>
      [] v.t = "function" -> TRUE
      [] v.t = "object" -> v.n # 0

(***************************************************************************)
(* The symbols of an instance (no instance of the model overrides them)    *)
(***************************************************************************)
defaultSymbols ==
    [macroBegin |-> <<"$", "{">>,
     macroEnd |-> <<"}">>,
     modifierSeparator |-> <<"|">>,
     modifierParamSeparator |-> <<":">>,
     propertyPathIndicator |-> <<"^">>,
     siblingsTemplateKey |-> <<"$", "t", "e", "m", "p", "l", "a", "t", "e">>,
     resultForUndefinedValues |-> <<"$", "$", "-", "u", "n", "d", "e", "f", "i", "n", "e", "d", "-", "$", "$">>]

escapeChar == "\\"

\* the three string delimiters of a macro key; the grave accent, which a
\* string of this notation cannot hold, is written as the word "grave"
Quotes == {"grave", "\"", "'"}

(***************************************************************************)
(* Diagnostics.  A diagnostic is the sequence of its parts, which the      *)
(* program joins with " <== ", and the property path it appends.  A part   *)
(* is a message of the program (m) with the text it embeds (s), or a bare  *)
(* text (m = "").                                                          *)
(***************************************************************************)
Msg(m, s) == [m |-> m, s |-> s]
Txt(s) == [m |-> "", s |-> s]

\* the parts that are not empty, each once, in order
RECURSIVE filterParts(_, _)
filterParts(msgs, filtered) ==
    IF msgs = <<>> THEN filtered
    ELSE LET element == Head(msgs)
             truthy == element.m # "" \/ element.s # <<>>
         IN filterParts(Tail(msgs),
                        IF truthy /\ ~(\E i \in 1..Len(filtered) : filtered[i] = element)
                        THEN Append(filtered, element) ELSE filtered)

\* addError(...msgs) on the instance mi
addError(mi, msgs) ==
    LET m1 == IF mi.currentExpression.t # "undefined"
              THEN Append(msgs, Txt(mi.currentExpression.s)) ELSE msgs
        m2 == IF mi.completeExpression.t # "undefined"
              THEN Append(m1, Txt(mi.completeExpression.s)) ELSE m1
    IN [mi EXCEPT !.errors = Append(@, [msgs |-> filterParts(m2, <<>>),
                                        property |-> mi.propertyPath]),
                  !.recorded = @ + 1]

(***************************************************************************)
(* An instance mi is the record of its fields, of the heap and of the      *)
(* modifier registry; an operation yields the instance after it and what   *)
(* it returns.  mi.consulted lists the repositories (by index) that the    *)
(* operation has read or invoked so far, and mi.recorded counts the        *)
(* diagnostics it has added.                                               *)
(***************************************************************************)
Ret(mi, ret) == [mi |-> mi, ret |-> ret]

\* the repository callbacks of test/macroint.test.js
repositoryCallback(name, macroKey) ==
    CASE name = "isX" -> IF macroKey = <<"x">> THEN Num(123) ELSE Undefined
      [] name = "isA" -> IF macroKey = <<"a">> THEN Num(987) ELSE Undefined

\* for (const property of splitMacroKey) { result = result[property]; if (result == undefined) break }
RECURSIVE walkPath(_, _, _, _)
walkPath(h, result, splitMacroKey, i) ==
    IF i > Len(splitMacroKey) THEN result
    ELSE LET next == jsGet(h, result, splitMacroKey[i])
         IN IF IsNullish(next) THEN next ELSE walkPath(h, next, splitMacroKey, i + 1)

\* a variant that reads a key with dots as the name of one property
askRepositoryDirect(h, repository, macroKey, splitMacroKey) ==
    IF repository.t = "function" THEN repositoryCallback(repository.s[1], macroKey)
    ELSE jsGet(h, repository, macroKey)

\* the result of one repository for macroKey
askRepository(h, repository, macroKey, splitMacroKey) ==
    IF repository.t = "function" THEN repositoryCallback(repository.s[1], macroKey)
    ELSE IF Len(splitMacroKey) = 1 THEN jsGet(h, repository, macroKey)
    ELSE walkPath(h, repository, splitMacroKey, 1)

\* a variant of the loop without its break: every repository is asked and
\* the last defined value is returned
RECURSIVE searchRepositoriesLast(_, _, _, _)
searchRepositoriesLast(mi, macroKey, splitMacroKey, i) ==
    IF i > Len(mi.repositories) THEN Ret(mi, Undefined)
    ELSE LET result == askRepository(mi.heap, mi.repositories[i], macroKey, splitMacroKey)
             seen == [mi EXCEPT !.consulted = Append(@, i)]
             later(r) == IF r.ret.t # "undefined" THEN r ELSE Ret(r.mi, result)
         IN later(searchRepositoriesLast(seen, macroKey, splitMacroKey, i + 1))

\* for (let i = 0, len = this._repositories.length; i < len; i++) ... break
RECURSIVE searchRepositories(_, _, _, _)
searchRepositories(mi, macroKey, splitMacroKey, i) ==
    IF i > Len(mi.repositories) THEN Ret(mi, Undefined)
    ELSE LET result == askRepository(mi.heap, mi.repositories[i], macroKey, splitMacroKey)
             seen == [mi EXCEPT !.consulted = Append(@, i)]
         IN IF result.t # "undefined" THEN Ret(seen, result)
            ELSE searchRepositories(seen, macroKey, splitMacroKey, i + 1)

\* the element of the property path that the text after the indicator names
propertyPathValue(mi, completeStr, key) ==
    LET pathLen == Len(mi.propertyPath)
        element(pathIndex, at) ==
            IF IsNaN(pathIndex)
            THEN Ret(addError(mi, <<Msg("Invalid property-path-index. The index must be a number.", <<>>),
                                    Txt(completeStr), Txt(key)>>), Undefined)
            ELSE IF at < 0 \/ at >= pathLen
            THEN Ret(addError(mi, <<Msg(IF pathLen = 0 THEN "Invalid property-path-index. Path is empty."
                                        ELSE "Invalid property-path-index.", <<>>),
                                    Txt(completeStr), Txt(key)>>), Undefined)
            ELSE Ret(mi, Str(mi.propertyPath[at + 1]))
        indexed(pathIndex) ==
            element(pathIndex, IF pathIndex.n < 0 THEN pathLen + pathIndex.n ELSE pathIndex.n)
    IN indexed(stringToNumber(completeStr))

\* getValue(macroKey)
getValue(mi, macroKey) ==
    IF macroKey.t # "string" THEN Ret(mi, macroKey)
    ELSE LET key == macroKey.s
             warned == IF mi.hasConstant
                       THEN addError(mi, <<Msg("Unused modifier-value after constant value.", <<>>),
                                           Txt(key)>>)
                       ELSE mi
             first == IF key = <<>> THEN "" ELSE key[1]
             last == IF key = <<>> THEN "" ELSE key[Len(key)]
             symbols == defaultSymbols
         IN IF first \in Quotes /\ last = first
            THEN Ret([warned EXCEPT !.hasConstant = TRUE],
                     Str(substring(key, 1, Len(key) - 1)))
            ELSE IF first \notin Quotes
                    /\ first = symbols.propertyPathIndicator[1]
                    /\ startsWith(key, symbols.propertyPathIndicator)
            THEN propertyPathValue([warned EXCEPT !.hasConstant = TRUE],
                                   substringFrom(key, Len(symbols.propertyPathIndicator)), key)
            ELSE searchRepositories(warned, key, split(key, <<".">>), 1)

(***************************************************************************)
(* The modifier callbacks: the seven registered when the module is loaded  *)
(* and def_callback of the tests, () => {}.  params is a string value or   *)
(* undefined.                                                              *)
(***************************************************************************)
\* a new array holding elems, with its reference
newArray(mi, elems) ==
    Ret([mi EXCEPT !.heap = Append(@, Arr(elems))], Ref(Len(mi.heap) + 1))

\* a variant of the mandatory modifier that takes a value that is falsy for
\* an undefined one
mandatoryModifierFalsy(mi, macroValue) ==
    IF ~toBooleanValue(macroValue)
    THEN Ret(addError(mi, <<Msg("Undefined result for mandatory expression.", <<>>)>>), macroValue)
    ELSE Ret(mi, macroValue)

mandatoryModifier(mi, macroValue) ==
    IF macroValue.t = "undefined"
    THEN Ret(addError(mi, <<Msg("Undefined result for mandatory expression.", <<>>)>>), macroValue)
    ELSE Ret(mi, macroValue)

\* a variant of the default modifier that takes the default in every case
defaultModifierAlways(mi, macroValue, params) ==
    LET chosen(defValue) == Ret(defValue.mi, defValue.ret)
    IN chosen(getValue(mi, params))

\* a variant of the default modifier that records a diagnostic for a
\* default without a value
defaultModifierTold(mi, macroValue, params) ==
    LET chosen(defValue) ==
            Ret(IF defValue.ret.t = "undefined"
                THEN addError(defValue.mi, <<Msg("The default-value is undefined.", <<>>)>>)
                ELSE defValue.mi,
                IF macroValue.t = "undefined" THEN defValue.ret ELSE macroValue)
    IN chosen(getValue(mi, params))

defaultModifier(mi, macroValue, params) ==
    LET chosen(defValue) ==
            Ret(defValue.mi, IF macroValue.t = "undefined" THEN defValue.ret ELSE macroValue)
    IN chosen(getValue(mi, params))

upperModifier(mi, macroValue) ==
    Ret(mi, IF macroValue.t = "string" THEN Str(toUpperCase(macroValue.s)) ELSE macroValue)

lowerModifier(mi, macroValue) ==
    Ret(mi, IF macroValue.t = "string" THEN Str(toLowerCase(macroValue.s)) ELSE macroValue)

emptyArrayModifier(mi, macroValue) ==
    IF mi.isOneMacro
    THEN newArray(mi, IF macroValue.t = "undefined" THEN <<>> ELSE <<macroValue>>)
    ELSE Ret(addError(mi, <<Msg("'emptyArray'-Modifier can only be used if the whole expression is a macro.",
                                <<>>)>>), macroValue)

toNumberModifier(mi, macroValue, params) ==
    IF macroValue.t # "number"
    THEN LET converted(num) ==
                 IF IsNaN(num)
                 THEN IF params.t = "string" /\ params.s # <<>>
                      THEN Ret(mi, stringToNumber(params.s))
                      ELSE Ret(addError(mi, <<Msg("modifier toNumber: Unable to convert the macro-value to a number.",
                                                  stringOf(mi.heap, macroValue))>>), Num(0))
                 ELSE Ret(mi, num)
         IN converted(toNumberValue(mi.heap, macroValue))
    ELSE Ret(mi, macroValue)

toBooleanModifier(mi, macroValue) ==
    IF macroValue.t = "string"
    THEN Ret(mi, Bool(toLowerCase(macroValue.s) # <<"f", "a", "l", "s", "e">>
                      /\ macroValue.s # <<"0">>
                      /\ toBooleanValue(macroValue)))
    ELSE Ret(mi, Bool(toBooleanValue(macroValue)))

modifierCallback(name, mi, macroValue, params) ==
    CASE name = "mandatory" -> mandatoryModifier(mi, macroValue)
      [] name = "default" -> defaultModifier(mi, macroValue, params)
      [] name = "upper" -> upperModifier(mi, macroValue)
      [] name = "lower" -> lowerModifier(mi, macroValue)
      [] name = "emptyArray" -> emptyArrayModifier(mi, macroValue)
      [] name = "toNumber" -> toNumberModifier(mi, macroValue, params)
      [] name = "toBoolean" -> toBooleanModifier(mi, macroValue)
      [] name = "def_callback" -> Ret(mi, Undefined)

\* a variant of _execModifiers that ends at a modifier that is not
\* registered, after its diagnostic
RECURSIVE execModifiersUntilUnknown(_, _, _, _)
execModifiersUntilUnknown(mi, foundModifiers, macroValue, i) ==
    IF i > Len(foundModifiers) THEN Ret(mi, macroValue)
    ELSE LET found == foundModifiers[i]
             searchKey == toLowerCase(found.key)
             next(r) == execModifiersUntilUnknown(r.mi, foundModifiers, r.ret, i + 1)
         IN IF searchKey \in DOMAIN mi.modifiers
            THEN next(modifierCallback(mi.modifiers[searchKey].s[1], mi, macroValue, found.params))
            ELSE Ret(addError(mi, <<Msg("Unknown modifier", found.key)>>), macroValue)

\* _execModifiers(foundModifiers, macroValue), from the i-th modifier on
RECURSIVE execModifiersFrom(_, _, _, _)
execModifiersFrom(mi, foundModifiers, macroValue, i) ==
    IF i > Len(foundModifiers) THEN Ret(mi, macroValue)
    ELSE LET found == foundModifiers[i]
             searchKey == toLowerCase(found.key)
             next(r) == execModifiersFrom(r.mi, foundModifiers, r.ret, i + 1)
         IN IF searchKey \in DOMAIN mi.modifiers
            THEN next(modifierCallback(mi.modifiers[searchKey].s[1], mi, macroValue, found.params))
            ELSE next(Ret(addError(mi, <<Msg("Unknown modifier", found.key)>>), macroValue))

execModifiers(mi, foundModifiers, macroValue) ==
    execModifiersFrom(mi, foundModifiers, macroValue, 1)

(***************************************************************************)
(* _interpolate(expression).  sc is the scan: the instance, the locals of  *)
(* _interpolate, and whether and what it has returned.                     *)
(***************************************************************************)
MaxScanSteps == 40

\* __appendNewPart(symbolLength)
appendNewPart(sc, symbolLength) ==
    LET symbols == defaultSymbols
        newPart == trim(substring(sc.expression, sc.partStartIndex, sc.charIndex))
        index == indexOf(newPart, symbols.modifierParamSeparator)
        params == IF index > -1
                  THEN Str(trim(substringFrom(newPart, index + Len(symbols.modifierParamSeparator))))
                  ELSE Undefined
        key == IF index > -1 THEN trim(substring(newPart, 0, index)) ELSE newPart
        added == IF sc.macroKey.t = "undefined" THEN [sc EXCEPT !.macroKey = Str(newPart)]
                 ELSE IF newPart # <<>>
                 THEN [sc EXCEPT !.foundModifiers = Append(@, [key |-> key, params |-> params])]
                 ELSE sc
    IN [added EXCEPT !.partStartIndex = sc.charIndex + symbolLength]

\* a variant of the pop that forgets the enclosing macro
popMacroPartsLost(sc) ==
    [sc EXCEPT !.macroPartsStack = IF @ = <<>> THEN @ ELSE SubSeq(@, 1, Len(@) - 1),
               !.macroKey = Undefined,
               !.startIndex = -1]

\* macroParts = macroPartsStack.pop() and what follows it
popMacroParts(sc) ==
    IF sc.macroPartsStack # <<>>
    THEN LET macroParts == sc.macroPartsStack[Len(sc.macroPartsStack)]
         IN [sc EXCEPT !.macroPartsStack = SubSeq(@, 1, Len(@) - 1),
                       !.partStartIndex = macroParts.partStartIndex,
                       !.startIndex = macroParts.startIndex,
                       !.macroKey = macroParts.macroKey,
                       !.foundModifiers = macroParts.foundModifiers]
    ELSE [sc EXCEPT !.macroKey = Undefined, !.startIndex = -1]

\* the branch of the loop that starts a macro
beginMacro(sc) ==
    LET symbols == defaultSymbols
        pushed == IF sc.startIndex > -1
                  THEN [sc EXCEPT !.macroPartsStack =
                            Append(@, [partStartIndex |-> sc.partStartIndex,
                                       startIndex |-> sc.startIndex,
                                       macroKey |-> sc.macroKey,
                                       foundModifiers |-> sc.foundModifiers])]
                  ELSE sc
    IN [pushed EXCEPT !.foundModifiers = <<>>,
                      !.partStartIndex = sc.charIndex + Len(symbols.macroBegin),
                      !.startIndex = sc.charIndex,
                      !.macroKey = Undefined,
                      !.charIndex = sc.charIndex + Len(symbols.macroBegin) - 1]

\* a variant of the replacement that loses the text after the macro
replaceMacroCut(parted, mi, macroValue) ==
    LET symbols == defaultSymbols
        replaced(text) ==
            [parted EXCEPT !.mi = mi,
                           !.expression = substring(parted.expression, 0, parted.startIndex) \o text,
                           !.charIndex = parted.startIndex
                                         + (IF includes(text, symbols.macroBegin)
                                            THEN -1 ELSE Len(text) - 1)]
    IN replaced(IF macroValue.t = "undefined" THEN symbols.resultForUndefinedValues
                ELSE IF macroValue.t # "string" THEN stringOf(mi.heap, macroValue)
                ELSE macroValue.s)

\* the macro's text is replaced by the text of its value: expression =
\* expression.substring(0, startIndex) + macroValue + ..., and the scan goes
\* on after that text, or at its start if it holds a macro-begin
replaceMacro(parted, mi, macroValue) ==
    LET symbols == defaultSymbols
        replaced(text) ==
            [parted EXCEPT !.mi = mi,
                           !.expression = substring(parted.expression, 0, parted.startIndex)
                                          \o text
                                          \o substringFrom(parted.expression, parted.partStartIndex),
                           !.charIndex = parted.startIndex
                                         + (IF includes(text, symbols.macroBegin)
                                            THEN -1 ELSE Len(text) - 1)]
    IN replaced(IF macroValue.t = "undefined" THEN symbols.resultForUndefinedValues
                ELSE IF macroValue.t # "string" THEN stringOf(mi.heap, macroValue)
                ELSE macroValue.s)

\* a variant of the end of the branch that never returns the value itself:
\* the text of the value is put in the place of the macro in every case
placeValueAsText(parted, mi, macroValue) ==
    IF macroValue.t = "undefined" /\ ~mi.allowUndefined
    THEN popMacroParts([parted EXCEPT !.mi = addError(mi, <<Msg("macro-value is undefined.", <<>>)>>)])
    ELSE popMacroParts(replaceMacro(parted, mi, macroValue))

\* a variant of the end of the branch that keeps the text of a macro
\* without a value, and tells nothing of it
placeValueUntold(parted, mi, macroValue) ==
    IF macroValue.t = "undefined" /\ ~mi.allowUndefined
    THEN popMacroParts([parted EXCEPT !.mi = mi])
    ELSE IF mi.isOneMacro
    THEN [parted EXCEPT !.mi = mi, !.done = TRUE, !.ret = macroValue]
    ELSE popMacroParts(replaceMacro(parted, mi, macroValue))

\* the end of the branch that ends a macro, from if (macroValue === undefined
\* && !this._allowUndefined) on: the macro's text is kept, or its value is
\* returned, or the text of its value is put in its place
placeValue(parted, mi, macroValue) ==
    IF macroValue.t = "undefined" /\ ~mi.allowUndefined
    THEN popMacroParts([parted EXCEPT !.mi = addError(mi, <<Msg("macro-value is undefined.", <<>>)>>)])
    ELSE IF mi.isOneMacro
    THEN [parted EXCEPT !.mi = mi, !.done = TRUE, !.ret = macroValue]
    ELSE popMacroParts(replaceMacro(parted, mi, macroValue))

\* a variant of the branch that ends a macro without this._hasConstant =
\* false
endMacroFlagKept(sc) ==
    LET symbols == defaultSymbols
        modified(parted, resolved) ==
            LET valued(m) == placeValue(parted, m.mi, m.ret)
            IN valued(execModifiers(resolved.mi, parted.foundModifiers, resolved.ret))
        entered(parted, current) ==
            modified(parted,
                     getValue([parted.mi EXCEPT !.currentExpression = Str(current),
                                                !.isOneMacro = (current = parted.expression)],
                              parted.macroKey))
        parts(parted) ==
            entered(parted, substring(parted.expression, parted.startIndex, parted.partStartIndex))
    IN parts(appendNewPart(sc, Len(symbols.macroEnd)))

\* the branch of the loop that ends a macro: resolve it, apply its
\* modifiers, and place its value
endMacro(sc) ==
    LET symbols == defaultSymbols
        \* macroValue = this._execModifiers(foundModifiers, macroValue)
        modified(parted, resolved) ==
            LET valued(m) == placeValue(parted, m.mi, m.ret)
            IN valued(execModifiers(resolved.mi, parted.foundModifiers, resolved.ret))
        \* this._currentExpression = ...; this._isOneMacro = ...;
        \* this._hasConstant = false; macroValue = this.getValue(macroKey)
        entered(parted, current) ==
            modified(parted,
                     getValue([parted.mi EXCEPT !.currentExpression = Str(current),
                                                !.isOneMacro = (current = parted.expression),
                                                !.hasConstant = FALSE],
                              parted.macroKey))
        parts(parted) ==
            entered(parted, substring(parted.expression, parted.startIndex, parted.partStartIndex))
    IN parts(appendNewPart(sc, Len(symbols.macroEnd)))

\* one pass of the body of the for loop, for charIndex < expression.length
scanChar(sc) ==
    LET symbols == defaultSymbols
        e == sc.expression
        i == sc.charIndex
        char == e[i + 1]
    IN IF char = escapeChar
       THEN [sc EXCEPT !.expression = substring(e, 0, i) \o substringFrom(e, i + 1)]
       ELSE IF char = symbols.modifierSeparator[1]
       THEN IF sc.startIndex > -1
               /\ substring(e, i, i + Len(symbols.modifierSeparator)) = symbols.modifierSeparator
            THEN appendNewPart(sc, Len(symbols.modifierSeparator))
            ELSE sc
       ELSE IF char = symbols.macroBegin[1]
       THEN IF substring(e, i, i + Len(symbols.macroBegin)) = symbols.macroBegin
            THEN beginMacro(sc)
            ELSE sc
       ELSE IF char = symbols.macroEnd[1]
       THEN IF sc.startIndex > -1
               /\ substring(e, i, i + Len(symbols.macroEnd)) = symbols.macroEnd
            THEN endMacro(sc)
            ELSE sc
       ELSE sc

\* a variant of the step that, at the end of the text, takes away the
\* fragment of a macro that is still open
scanStepCut(sc) ==
    IF sc.charIndex < Len(sc.expression)
    THEN LET increment(after) == IF after.done THEN after ELSE [after EXCEPT !.charIndex = @ + 1]
         IN increment(scanChar(sc))
    ELSE [sc EXCEPT !.mi = [@ EXCEPT !.currentExpression = Undefined],
                    !.done = TRUE,
                    !.ret = Str(IF sc.startIndex > -1
                                THEN substring(sc.expression, 0, sc.startIndex)
                                ELSE sc.expression)]

\* one step of the for loop: its test, its body and its increment; after
\* the loop, this._currentExpression = undefined; return expression
scanStep(sc) ==
    IF sc.charIndex < Len(sc.expression)
    THEN LET increment(after) == IF after.done THEN after ELSE [after EXCEPT !.charIndex = @ + 1]
         IN increment(scanChar(sc))
    ELSE [sc EXCEPT !.mi = [@ EXCEPT !.currentExpression = Undefined],
                    !.done = TRUE,
                    !.ret = Str(sc.expression)]

\* the scan at the start of _interpolate(expression)
scanStart(mi, expression) ==
    [mi |-> [mi EXCEPT !.completeExpression = Str(expression),
                       !.currentExpression = Undefined],
     expression |-> expression,
     charIndex |-> 0,
     partStartIndex |-> 0,
     startIndex |-> -1,
     macroKey |-> Undefined,
     foundModifiers |-> <<>>,
     macroPartsStack |-> <<>>,
     done |-> FALSE,
     ret |-> Undefined,
     steps |-> 0]

\* the loop, for at most MaxScanSteps steps
RECURSIVE scanLoop(_)
scanLoop(sc) ==
    IF sc.done \/ sc.steps >= MaxScanSteps THEN sc
    ELSE scanLoop([scanStep(sc) EXCEPT !.steps = @ + 1])

\* _interpolate(expression): ret is its result; done is false when the scan
\* has not ended within MaxScanSteps steps
interpolate(mi, expression) == scanLoop(scanStart(mi, expression))

(***************************************************************************)
(* resolve(expression, options) on an object or array.  w is the walk:     *)
(* the instance, handledObjects, the two options, and what the walk has    *)
(* thrown ("none" while it runs).  A call that is given no options has     *)
(* NoOptions; the keys of an options object are listed in keys.            *)
(***************************************************************************)
MaxCopyDepth == 3

NoOptions == [given |-> FALSE, keys |-> <<>>, exclude |-> <<>>, include |-> <<>>]
Options(keys, exclude, include) ==
    [given |-> TRUE, keys |-> keys, exclude |-> exclude, include |-> include]
HasKey(options, key) == \E i \in 1..Len(options.keys) : options.keys[i] = key

\* the keys that for (key in v) enumerates
enumerableKeys(h, v) ==
    IF v.t = "object" /\ v.n # 0 THEN [i \in 1..Len(h[v.n].props) |-> h[v.n].props[i].k]
    ELSE IF v.t = "string" THEN [i \in 1..Len(v.s) |-> natToString(i - 1)]
    ELSE <<>>

\* Object.assign(target, source) on the object target
RECURSIVE assignFrom(_, _, _, _)
assignFrom(h, target, source, i) ==
    LET keys == enumerableKeys(h, source)
    IN IF i > Len(keys) THEN target
       ELSE assignFrom(h, ownSet(target, keys[i], jsGet(h, source, keys[i])), source, i + 1)

\* __copyObject(template, current): c.ret is the copy, c.deep is false when
\* the copy is nested deeper than MaxCopyDepth
RECURSIVE copyObject(_, _, _, _)
RECURSIVE copyProperties(_, _, _, _)
copyObject(c, template, current, depth) ==
    LET h == c.heap
        isArray == template.t = "object" /\ template.n # 0 /\ h[template.n].arr
        empty == [arr |-> isArray, props |-> <<>>]
        result == assignFrom(h, assignFrom(h, empty, template, 1), current, 1)
        id == Len(h) + 1
        made == [c EXCEPT !.heap = Append(h, result), !.ret = Ref(id)]
    IN IF depth > MaxCopyDepth THEN [c EXCEPT !.deep = FALSE]
       ELSE [copyProperties(made, id, 1, depth) EXCEPT !.ret = Ref(id)]
copyProperties(c, id, i, depth) ==
    LET props == c.heap[id].props
    IN IF i > Len(props) \/ ~c.deep THEN c
       ELSE IF props[i].v.t = "object"
       THEN LET inner == copyObject(c, props[i].v, Undefined, depth + 1)
            IN copyProperties([inner EXCEPT !.heap[id] = ownSet(@, props[i].k, inner.ret)],
                              id, i + 1, depth)
       ELSE copyProperties(c, id, i + 1, depth)

\* a variant of __processTemplate that sets every key of the template in
\* the destination, whatever the destination has
RECURSIVE processTemplateOverwrite(_, _, _, _)
processTemplateOverwrite(w, template, destination, i) ==
    LET h == w.mi.heap
        keys == enumerableKeys(h, template)
    IN IF i > Len(keys) \/ w.thrown # "none" THEN w
       ELSE IF destination = Null THEN [w EXCEPT !.thrown = "TypeError"]
       ELSE LET templateKey == keys[i]
                templateValue == jsGet(h, template, templateKey)
                copy == copyObject([heap |-> h, ret |-> Undefined, deep |-> TRUE],
                                   templateValue, Undefined, 1)
            IN IF templateValue.t = "object"
               THEN IF ~copy.deep THEN [w EXCEPT !.thrown = "RangeError"]
                    ELSE processTemplateOverwrite(
                           [w EXCEPT !.mi.heap = [copy.heap EXCEPT ![destination.n] =
                                                     ownSet(@, templateKey, copy.ret)]],
                           template, destination, i + 1)
               ELSE processTemplateOverwrite(
                      [w EXCEPT !.mi.heap[destination.n] = ownSet(@, templateKey, templateValue)],
                      template, destination, i + 1)

\* __processTemplate(template, destination), from the i-th key of the template on
RECURSIVE processTemplate(_, _, _, _)
processTemplate(w, template, destination, i) ==
    LET h == w.mi.heap
        keys == enumerableKeys(h, template)
    IN IF i > Len(keys) \/ w.thrown # "none" THEN w
       ELSE IF destination = Null THEN [w EXCEPT !.thrown = "TypeError"]
       ELSE LET templateKey == keys[i]
                templateValue == jsGet(h, template, templateKey)
                destinationValue == jsGet(h, destination, templateKey)
                copy == copyObject([heap |-> h, ret |-> Undefined, deep |-> TRUE],
                                   templateValue, destinationValue, 1)
            IN IF destinationValue.t = "undefined" \/ destinationValue.t = "object"
               THEN IF templateValue.t = "object"
                    THEN IF ~copy.deep THEN [w EXCEPT !.thrown = "RangeError"]
                         ELSE processTemplate(
                                [w EXCEPT !.mi.heap = [copy.heap EXCEPT ![destination.n] =
                                                          ownSet(@, templateKey, copy.ret)]],
                                template, destination, i + 1)
                    ELSE processTemplate(
                           [w EXCEPT !.mi.heap[destination.n] = ownSet(@, templateKey, templateValue)],
                           template, destination, i + 1)
               ELSE processTemplate(w, template, destination, i + 1)

\* this._propertyPath.join(".")
RECURSIVE joinPath(_)
joinPath(path) ==
    IF path = <<>> THEN <<>>
    ELSE IF Len(path) = 1 THEN path[1]
    ELSE path[1] \o <<".">> \o joinPath(Tail(path))

\* a variant of the search for the include entry that takes the last entry
\* for the current path
includeKeyForLast(w) ==
    LET searchPath == joinPath(w.mi.propertyPath)
        hits == {i \in 1..Len(w.optionsInclude) : w.optionsInclude[i].path = searchPath}
    IN IF ~w.hasInclude \/ hits = {} THEN <<>>
       ELSE w.optionsInclude[CHOOSE i \in hits : \A j \in hits : i >= j].property

\* the property of the first include entry for the current path, or the
\* empty text (for which nothing is filtered) when there is none
includeKeyFor(w) ==
    LET searchPath == joinPath(w.mi.propertyPath)
        hits == {i \in 1..Len(w.optionsInclude) : w.optionsInclude[i].path = searchPath}
    IN IF ~w.hasInclude \/ hits = {} THEN <<>>
       ELSE w.optionsInclude[CHOOSE i \in hits : \A j \in hits : i <= j].property

pushPath(w, indexKey) == [w EXCEPT !.mi.propertyPath = Append(@, indexKey)]
\* a variant of the pop that leaves the stack as it is
popPathKept(w) == w
popPath(w) ==
    IF w.thrown # "none" THEN w
    ELSE [w EXCEPT !.mi.propertyPath = SubSeq(@, 1, Len(@) - 1)]

\* __traverseProperties(obj) and the body of its loop for the i-th key
RECURSIVE traverseProperties(_, _)
RECURSIVE traverseKeys(_, _, _, _, _, _)
\* a variant of the branch for a string without its test for a macro-begin:
\* every string is interpolated
interpolatePropertyAlways(w, obj, indexKey, value) ==
    LET pushed == pushPath(w, indexKey)
        stored(scan) ==
            LET kept == [pushed EXCEPT !.mi = [scan.mi EXCEPT !.heap[obj.n] =
                                                  ownSet(@, indexKey, scan.ret)]]
            IN IF ~scan.done THEN [pushed EXCEPT !.thrown = "endless"]
               ELSE popPath(IF scan.ret.t = "object"
                            THEN traverseProperties(kept, scan.ret)
                            ELSE kept)
    IN stored(interpolate(pushed.mi, value.s))

\* the branch of the loop for a string: if (value.includes(macroBegin)) ...
interpolateProperty(w, obj, indexKey, value) ==
    LET pushed == pushPath(w, indexKey)
        \* obj[indexKey] = result, and the walk into a result that is an object
        stored(scan) ==
            LET kept == [pushed EXCEPT !.mi = [scan.mi EXCEPT !.heap[obj.n] =
                                                  ownSet(@, indexKey, scan.ret)]]
            IN IF ~scan.done THEN [pushed EXCEPT !.thrown = "endless"]
               ELSE popPath(IF scan.ret.t = "object"
                            THEN traverseProperties(kept, scan.ret)
                            ELSE kept)
    IN IF includes(value.s, defaultSymbols.macroBegin)
       THEN stored(interpolate([pushed.mi EXCEPT !.scanned = Append(@, <<obj, indexKey>>),
                                                 !.stacks = Append(@, <<pushed.mi.propertyPath, pushed.mi.heap>>)],
                               value.s))
       ELSE w

traverseProperties(w, obj) ==
    IF w.thrown # "none" THEN w
    ELSE IF \E i \in 1..Len(w.handledObjects) : w.handledObjects[i] = obj THEN w
    ELSE LET handled == [w EXCEPT !.handledObjects = Append(@, obj)]
             optionsIncludeKey == includeKeyFor(handled)
         IN IF obj = Null THEN [handled EXCEPT !.thrown = "TypeError"]
            ELSE traverseKeys([handled EXCEPT !.mi.walked = Append(@, obj)],
                              obj, enumerableKeys(w.mi.heap, obj), 1, optionsIncludeKey,
                              ownGet(w.mi.heap[obj.n], defaultSymbols.siblingsTemplateKey))
traverseKeys(w, obj, keys, i, optionsIncludeKey, siblingsTemplate) ==
    IF i > Len(keys) \/ w.thrown # "none" THEN w
    ELSE LET indexKey == keys[i]
             value == ownGet(w.mi.heap[obj.n], indexKey)
             symbols == defaultSymbols
             skipped == \/ indexKey = symbols.siblingsTemplateKey
                        \/ w.hasExclude /\ (\E j \in 1..Len(w.optionsExclude) : w.optionsExclude[j] = indexKey)
                        \/ optionsIncludeKey # <<>> /\ optionsIncludeKey # indexKey
             pushed == pushPath(w, indexKey)
             templated == IF toBooleanValue(siblingsTemplate)
                          THEN processTemplate(pushed, siblingsTemplate, value, 1)
                          ELSE pushed
             after ==
                IF skipped THEN w
                ELSE IF value.t = "string" THEN interpolateProperty(w, obj, indexKey, value)
                ELSE IF value.t = "object"
                THEN popPath(traverseProperties(templated, value))
                ELSE w
         IN traverseKeys(after, obj, keys, i + 1, optionsIncludeKey, siblingsTemplate)

\* the first key of the options that is not known, or "" when all are
unknownOption(options) ==
    LET bad == {i \in 1..Len(options.keys) : options.keys[i] \notin {"exclude", "include"}}
    IN IF bad = {} THEN "" ELSE options.keys[CHOOSE i \in bad : \A j \in bad : i <= j]

\* a variant of the reset that empties the list whatever throwErrors is
resetErrorsAlways(mi) == [mi EXCEPT !.errors = <<>>]

\* if (this._throwErrors) { this.errors.length = 0 }
resetErrors(mi) == IF mi.throwErrors THEN [mi EXCEPT !.errors = <<>>] ELSE mi

\* _formatErrors(lineOffset): the title and the entries that it joins
formatErrors(mi) ==
    [title |-> IF Len(mi.errors) = 0 THEN "Errors: <none>"
               ELSE IF Len(mi.errors) = 1 THEN "Error: "
               ELSE "Errors (errors.length):",
     entries |-> mi.errors]

\* what a call has when it throws something else, or nothing
NoMessage == [title |-> "", entries |-> <<>>]

\* a call of resolve that ends by throwing
Throws(mi, thrown) == [mi |-> mi, ret |-> Undefined, thrown |-> thrown, message |-> NoMessage]

\* a variant of the end of resolve that never throws the diagnostics
finishSilent(mi, ret) == [mi |-> mi, ret |-> ret, thrown |-> "none", message |-> NoMessage]

\* if (this._throwErrors && this.errors.length) throw ...; return expression
finish(mi, ret) ==
    IF mi.throwErrors /\ Len(mi.errors) > 0
    THEN [mi |-> mi, ret |-> Undefined, thrown |-> "errors", message |-> formatErrors(mi)]
    ELSE [mi |-> mi, ret |-> ret, thrown |-> "none", message |-> NoMessage]

\* resolve(expression, options): the instance after the call, what the call
\* returns, and what it throws: "none", "options" (the options are not
\* valid), "errors" (the diagnostics of mi.errors, formatted), "TypeError",
\* "RangeError" (a template that holds itself is copied without end) or
\* "endless" (the scan does not end; the call neither returns nor throws)
resolve(mi, expression, options) ==
    LET reset == resetErrors(mi)
        walked(walk) ==
            IF walk.thrown # "none" THEN Throws(walk.mi, walk.thrown)
            ELSE finish(walk.mi, expression)
        scanned(scan) ==
            IF ~scan.done THEN Throws(scan.mi, "endless")
            ELSE finish(scan.mi, scan.ret)
    IN IF expression.t = "object"
       THEN IF options.given /\ unknownOption(options) # ""
            THEN Throws(reset, "options")
            ELSE walked(traverseProperties(
                    [mi |-> reset, handledObjects |-> <<>>, thrown |-> "none",
                     hasInclude |-> HasKey(options, "include"), optionsInclude |-> options.include,
                     hasExclude |-> HasKey(options, "exclude"), optionsExclude |-> options.exclude],
                    expression))
       ELSE IF expression.t = "string"
       THEN IF options.given
            THEN Throws(reset, "options")
            ELSE scanned(interpolate(reset, expression.s))
       ELSE finish(reset, expression)

(***************************************************************************)
(* The modifier registry, MacroInt._modifiers: a function from the         *)
(* registered keywords to their callbacks.                                 *)
(***************************************************************************)
\* a variant of the loop of registerModifier without the test for an alias
\* that is registered already: the callback takes its place
RECURSIVE registerWordsOverwrite(_, _, _, _)
registerWordsOverwrite(modifiers, words, callback, i) ==
    IF i > Len(words) THEN [modifiers |-> modifiers, thrown |-> "none"]
    ELSE LET keyWord == toLowerCase(words[i])
         IN registerWordsOverwrite([k \in DOMAIN modifiers \cup {keyWord} |->
                                       IF k = keyWord THEN callback ELSE modifiers[k]],
                                   words, callback, i + 1)

\* a variant of the loop of registerModifier that tests all the words
\* before it registers one
registerWordsAtomic(modifiers, words, callback, i) ==
    IF \E j \in i..Len(words) : toLowerCase(words[j]) \in DOMAIN modifiers
    THEN [modifiers |-> modifiers, thrown |-> "already registered"]
    ELSE [modifiers |-> [k \in DOMAIN modifiers \cup {toLowerCase(words[j]) : j \in i..Len(words)} |->
                            IF k \in DOMAIN modifiers THEN modifiers[k] ELSE callback],
          thrown |-> "none"]

\* words.forEach(...) of registerModifier, from the i-th word on: the
\* registry after it and what it throws
RECURSIVE registerWords(_, _, _, _)
registerWords(modifiers, words, callback, i) ==
    IF i > Len(words) THEN [modifiers |-> modifiers, thrown |-> "none"]
    ELSE LET keyWord == toLowerCase(words[i])
         IN IF keyWord \in DOMAIN modifiers
            THEN [modifiers |-> modifiers, thrown |-> "already registered"]
            ELSE registerWords([k \in DOMAIN modifiers \cup {keyWord} |->
                                   IF k = keyWord THEN callback ELSE modifiers[k]],
                               words, callback, i + 1)

\* MacroInt.registerModifier(keyWords, callback), words being keyWords or,
\* for a keyWords that is one string, the array of it
registerModifier(modifiers, words, callback) ==
    IF callback.t # "function"
    THEN [modifiers |-> modifiers, thrown |-> "TypeError"]
    ELSE registerWords(modifiers, words, callback, 1)

\* words.forEach(...) of unregisterModifier, from the i-th word on: the
\* registry after it and the local variable result
RECURSIVE unregisterWords(_, _, _, _)
unregisterWords(modifiers, words, result, i) ==
    IF i > Len(words) THEN [modifiers |-> modifiers, result |-> result]
    ELSE LET keyWord == toLowerCase(words[i])
         IN IF keyWord \in DOMAIN modifiers
            THEN unregisterWords([k \in DOMAIN modifiers \ {keyWord} |-> modifiers[k]],
                                 words, TRUE, i + 1)
            ELSE unregisterWords(modifiers, words, result, i + 1)

\* MacroInt.unregisterModifier(keyWords): the only return statement of the
\* function is the one of the arrow function given to forEach, so the
\* function itself returns undefined
unregisterModifier(modifiers, words) ==
    [modifiers |-> unregisterWords(modifiers, words, FALSE, 1).modifiers, ret |-> Undefined]

\* the registrations made when the module is loaded
defaultModifiers ==
    <<[words |-> <<<<"m", "a", "n", "d", "a", "t", "o", "r", "y">>, <<"-", "m">>>>, callback |-> Fn("mandatory")],
      [words |-> <<<<"d", "e", "f", "a", "u", "l", "t">>, <<"-", "d">>>>, callback |-> Fn("default")],
      [words |-> <<<<"u", "p", "p", "e", "r">>, <<"-", "u">>>>, callback |-> Fn("upper")],
      [words |-> <<<<"l", "o", "w", "e", "r">>, <<"-", "l">>>>, callback |-> Fn("lower")],
      [words |-> <<<<"e", "m", "p", "t", "y", "A", "r", "r", "a", "y">>, <<"-", "e", "a">>>>,
       callback |-> Fn("emptyArray")],
      [words |-> <<<<"t", "o", "N", "u", "m", "b", "e", "r">>, <<"t", "o", "N", "u", "m">>, <<"-", "t", "n">>>>,
       callback |-> Fn("toNumber")],
      [words |-> <<<<"t", "o", "B", "o", "o", "l", "e", "a", "n">>, <<"t", "o", "B", "o", "o", "l">>, <<"-", "t", "b">>>>,
       callback |-> Fn("toBoolean")]>>

RECURSIVE registerAll(_, _, _)
registerAll(modifiers, registrations, i) ==
    IF i > Len(registrations) THEN modifiers
    ELSE registerAll(registerModifier(modifiers, registrations[i].words, registrations[i].callback).modifiers,
                     registrations, i + 1)

\* static _modifiers = {} and the registrations at the end of the module
loadedModifiers == registerAll(<<>>, defaultModifiers, 1)

(***************************************************************************)
(* Repositories                                                            *)
(***************************************************************************)
\* registerRepository(repositories): list is the array given, or the one
\* repository given
registerRepository(mi, list) == [mi EXCEPT !.repositories = @ \o list]

\* new MacroInt(repositories, options): the fields of the class, then the
\* constructor
construct(h, list, options) ==
    registerRepository(
        [modifiers |-> loadedModifiers,
         repositories |-> <<>>,
         completeExpression |-> Undefined,
         currentExpression |-> Undefined,
         isOneMacro |-> FALSE,
         hasConstant |-> FALSE,
         propertyPath |-> <<>>,
         allowUndefined |-> IF options.hasAllowUndefined THEN options.allowUndefined ELSE TRUE,
         throwErrors |-> IF options.hasThrowErrors THEN options.throwErrors ELSE TRUE,
         errors |-> <<>>,
         heap |-> h,
         consulted |-> <<>>,
         recorded |-> 0,
         walked |-> <<>>,
         scanned |-> <<>>,
         stacks |-> <<>>],
        list)


(***************************************************************************)
(* The program: one instance, the registry of the class, and the calls     *)
(* made on them.                                                           *)
(***************************************************************************)
\* the instance that the variables hold, nothing consulted, recorded, walked
\* or scanned yet
Self ==
    [modifiers |-> _modifiers,
     repositories |-> _repositories,
     completeExpression |-> _completeExpression,
     currentExpression |-> _currentExpression,
     isOneMacro |-> _isOneMacro,
     hasConstant |-> _hasConstant,
     propertyPath |-> _propertyPath,
     allowUndefined |-> _allowUndefined,
     throwErrors |-> _throwErrors,
     errors |-> errors,
     heap |-> heap,
     consulted |-> <<>>,
     recorded |-> 0,
     walked |-> <<>>,
     scanned |-> <<>>,
     stacks |-> <<>>]

\* the variables hold the instance mi
Becomes(mi) ==
    /\ _modifiers' = mi.modifiers
    /\ _repositories' = mi.repositories
    /\ _completeExpression' = mi.completeExpression
    /\ _currentExpression' = mi.currentExpression
    /\ _isOneMacro' = mi.isOneMacro
    /\ _hasConstant' = mi.hasConstant
    /\ _propertyPath' = mi.propertyPath
    /\ _allowUndefined' = mi.allowUndefined
    /\ _throwErrors' = mi.throwErrors
    /\ errors' = mi.errors
    /\ heap' = mi.heap

\* what a call finds: the errors list, the constant-produced flag, the
\* repositories, the registry and the number of objects
Before ==
    [errors |-> errors, hasConstant |-> _hasConstant, repositories |-> _repositories,
     modifiers |-> _modifiers, objects |-> Len(heap), propertyPath |-> _propertyPath]

\* the record of a call: its name, its arguments (expression or key, the
\* options, the objects of an object argument, the repositories, the
\* keywords and the callback), what it returned and threw, the repositories
\* it consulted, the number of diagnostics it added, and what it found
NoCall ==
    [op |-> "none", arg |-> Undefined, options |-> NoOptions, literal |-> <<>>, list |-> <<>>,
     words |-> <<>>, callback |-> Undefined, ret |-> Undefined, thrown |-> "none",
     message |-> NoMessage, consulted |-> <<>>, recorded |-> 0,
     walked |-> <<>>, scanned |-> <<>>, stacks |-> <<>>,
     before |-> [errors |-> <<>>, hasConstant |-> FALSE, repositories |-> <<>>,
                 modifiers |-> <<>>, objects |-> 0, propertyPath |-> <<>>]]

\* the objects of a literal (the first is its root, Ref(k) its k-th object)
\* as they lie in the heap after base objects
Placed(literal, base) ==
    [i \in 1..Len(literal) |->
        [literal[i] EXCEPT !.props =
            [j \in 1..Len(literal[i].props) |->
                LET v == literal[i].props[j].v
                IN Prop(literal[i].props[j].k,
                        IF v.t = "object" /\ v.n # 0 THEN Ref(v.n + base) ELSE v)]]]

\* macroInt.resolve(expression) for a string, a number, a boolean, undefined or null
ResolveValue(expression, options) ==
    LET returns(r) ==
            /\ Becomes(r.mi)
            /\ call' = [NoCall EXCEPT !.op = "resolve", !.arg = expression, !.options = options,
                                      !.ret = r.ret, !.thrown = r.thrown, !.message = r.message,
                                      !.consulted = r.mi.consulted, !.recorded = r.mi.recorded,
                                      !.before = Before]
            /\ calls' = calls + 1
    IN returns(resolve(Self, expression, options))

\* macroInt.resolve({...}, options) for an object or array written in the call
ResolveObject(literal, options) ==
    LET made == [Self EXCEPT !.heap = @ \o Placed(literal, Len(heap))]
        expression == Ref(Len(heap) + 1)
        returns(r) ==
            /\ Becomes(r.mi)
            /\ call' = [NoCall EXCEPT !.op = "resolve", !.arg = expression, !.options = options,
                                      !.literal = literal,
                                      !.ret = r.ret, !.thrown = r.thrown, !.message = r.message,
                                      !.consulted = r.mi.consulted, !.recorded = r.mi.recorded,
                                      !.walked = r.mi.walked, !.scanned = r.mi.scanned,
                                      !.stacks = r.mi.stacks,
                                      !.before = Before]
            /\ calls' = calls + 1
    IN returns(resolve(made, expression, options))

\* macroInt.getValue(macroKey)
GetValue(macroKey) ==
    LET returns(r) ==
            /\ Becomes(r.mi)
            /\ call' = [NoCall EXCEPT !.op = "getValue", !.arg = macroKey, !.ret = r.ret,
                                      !.consulted = r.mi.consulted, !.recorded = r.mi.recorded,
                                      !.before = Before]
            /\ calls' = calls + 1
    IN returns(getValue(Self, macroKey))

\* macroInt.registerRepository(repositories)
RegisterRepository(list) ==
    /\ Becomes(registerRepository(Self, list))
    /\ call' = [NoCall EXCEPT !.op = "registerRepository", !.list = list, !.before = Before]
    /\ calls' = calls + 1

\* macroInt._throwErrors = b, as the owner of the instance may do
SetThrowErrors(b) ==
    /\ Becomes([Self EXCEPT !.throwErrors = b])
    /\ call' = [NoCall EXCEPT !.op = "_throwErrors", !.before = Before]
    /\ calls' = calls + 1

\* macroInt._propertyPath = path, as the tests do
SetPropertyPath(path) ==
    /\ Becomes([Self EXCEPT !.propertyPath = path])
    /\ call' = [NoCall EXCEPT !.op = "_propertyPath", !.before = Before]
    /\ calls' = calls + 1

\* MacroInt.registerModifier(keyWords, callback)
RegisterModifier(words, callback) ==
    LET returns(r) ==
            /\ Becomes([Self EXCEPT !.modifiers = r.modifiers])
            /\ call' = [NoCall EXCEPT !.op = "registerModifier", !.words = words,
                                      !.callback = callback, !.thrown = r.thrown,
                                      !.before = Before]
            /\ calls' = calls + 1
    IN returns(registerModifier(_modifiers, words, callback))

\* MacroInt.unregisterModifier(keyWords)
UnregisterModifier(words) ==
    LET returns(r) ==
            /\ Becomes([Self EXCEPT !.modifiers = r.modifiers])
            /\ call' = [NoCall EXCEPT !.op = "unregisterModifier", !.words = words,
                                      !.ret = r.ret, !.before = Before]
            /\ calls' = calls + 1
    IN returns(unregisterModifier(_modifiers, words))

(***************************************************************************)
(* The objects the program starts with, and the arguments of its calls     *)
(***************************************************************************)
\* 1: {x: 123, e: "", t: true, o: {}, r: "${x}", p: {q: "v"}, n: 0, f: false,
\*     l: "b${l}"}   2: {}   5: {p: {}, u: null}
\* 3: {q: "v"}   4: {x: 999, y: 321, r1: "${r2}", r2: "${r3}", r3: "${r4}", r4: "r4"}
StartHeap ==
    <<Obj(<<Prop(<<"x">>, Num(123)), Prop(<<"e">>, Str(<<>>)), Prop(<<"t">>, Bool(TRUE)),
            Prop(<<"o">>, Ref(2)), Prop(<<"r">>, Str(<<"$", "{", "x", "}">>)),
            Prop(<<"p">>, Ref(3)), Prop(<<"n">>, Num(0)), Prop(<<"f">>, Bool(FALSE)),
            Prop(<<"l">>, Str(<<"b", "$", "{", "l", "}">>))>>),
      Obj(<<>>),
      Obj(<<Prop(<<"q">>, Str(<<"v">>))>>),
      Obj(<<Prop(<<"x">>, Num(999)), Prop(<<"y">>, Num(321)),
            Prop(<<"r", "1">>, Str(<<"$", "{", "r", "2", "}">>)),
            Prop(<<"r", "2">>, Str(<<"$", "{", "r", "3", "}">>)),
            Prop(<<"r", "3">>, Str(<<"$", "{", "r", "4", "}">>)),
            Prop(<<"r", "4">>, Str(<<"r", "4">>))>>),
      Obj(<<Prop(<<"p">>, Ref(2)), Prop(<<"u">>, Null)>>)>>

\* the repositories given to the constructor
StartRepositories == {<<>>, <<Ref(1), Ref(4)>>, <<Fn("isX"), Ref(4)>>, <<Ref(5), Ref(1)>>}

\* the repositories given to registerRepository
MoreRepositories == {<<Ref(4)>>, <<Fn("isA")>>, <<Fn("isA"), Ref(1)>>}

\* the options given to the constructor: none, or throwErrors, allowUndefined
\* or both set to false
ConstructorOptions ==
    {o \in [hasThrowErrors : BOOLEAN, throwErrors : BOOLEAN,
            hasAllowUndefined : BOOLEAN, allowUndefined : BOOLEAN] :
        /\ o.hasThrowErrors = ~o.throwErrors
        /\ o.hasAllowUndefined = ~o.allowUndefined}

\* the string expressions of the calls
Expressions ==
    {<<"$", "{", "x", "}">>,
     <<"a", "$", "{", "x", "}">>,
     <<"$", "{", "e", "}", "$", "{", "x", "}">>,
     <<"$", "{", "z", "}">>,
     <<"a", "$", "{", "z", "}">>,
     <<"$", "{", "z", "|", "-", "m", "}">>,
     <<"$", "{", "'", "c", "'", "|", "-", "d", ":", "z", "}">>,
     <<"$", "{", "x", "|", "w", "}">>,
     <<"a", "b">>,
     <<"$", "{", "^", "0", "}">>,
     <<"$", "{", "x", "|", "-", "e", "a", "}">>,
     <<"$", "{", "'", "c", "'", "}", "a", "$", "{", "z", "|", "-", "d", ":", "x", "}">>,
     <<"$", "{", "^", "9", "|", "-", "d", ":", "x", "}">>,
     <<"$", "{", "z", "|", "-", "d", ":", "'", "c", "'", "|", "-", "d", ":", "x", "|", "-", "d", ":", "y", "}">>}

\* more string expressions, for the first call of an instance
MoreExpressions ==
    {<<"$", "{", "o", "}">>,
     <<"$", "{", "t", "}">>,
     <<"$", "{", "p", ".", "q", "}">>,
     <<"a", "$", "{", "o", "}">>,
     <<"$", "{", "t", "}", "a", "$", "{", "p", ".", "q", "}">>,
     <<"$", "{", "z", "|", "-", "d", ":", "'", "a", "\\", "|", "b", "'", "}">>,
     <<"$", "{", "z", "|", "-", "d", ":", "'", "a", "|", "b", "'", "}">>,
     <<"$", "{", "$", "{", "e", "}", "x", "}">>,
     <<"$", "{", "$", "{", "'", "p", "'", "}", ".", "$", "{", "'", "q", "'", "}", "}">>,
     <<"$", "{", "$", "{", "$", "{", "'", "e", "'", "}", "}", "x", "}">>,
     <<"a", "$", "{", "$", "{", "$", "{", "'", "e", "'", "}", "}", "x", "}">>,
     <<"$", "{", "x", "|", "-", "d", ":", "y", "}">>,
     <<"$", "{", "z", "|", "-", "d", ":", "z", "|", "d", "e", "f", "a", "u", "l", "t", ":", "x", "}">>,
     <<"$", "{", "z", "|", "-", "d", ":", "y", "|", "-", "D", ":", "x", "}">>,
     <<"$", "{", "z", "|", "-", "d", ":", "z", "}">>,
     <<"$", "{", "z", " ", "|", " ", "-", "d", ":", " ", "a", " ", "|", " ", "-", "d", ":", " ", "'", "f", "'", "}">>,
     <<"$", "{", "x", "|", "m", "a", "n", "d", "a", "t", "o", "r", "y", "}">>,
     <<"$", "{", "e", "|", "-", "m", "}">>,
     <<"$", "{", "n", "|", "-", "M", "}">>,
     <<"$", "{", "f", " ", "|", " ", "-", "m", "}">>,
     <<"$", "{", "z", "|", " ", "M", "a", "n", "d", "a", "t", "o", "r", "y", "}">>,
     <<"$", "{", "r", "}">>,
     <<"$", "{", "r", "1", "}">>,
     <<"$", "{", "r", "3", "}">>,
     <<"a", "$", "{", "r", "}">>,
     <<"a", "$", "{", "r", "1", "}">>,
     <<"a", "$", "{", "r", "4", "}">>,
     <<"$", "{", "y", "}">>,
     <<"$", "{", "y", "}", "$", "{", "z", "}", "b">>,
     <<"$", "{", "r", "4", "|", "w", "|", "-", "u", "}">>,
     <<"$", "{", "r", "4", "|", "-", "u", "|", "w", "|", "-", "l", "}">>,
     <<"$", "{", "r", "4", "|", "W", "|", "n", "o", ":", "1", "|", "-", "U", "}">>,
     <<"$", "{", "r", "4", " ", "|", " ", "u", "p", "p", "e", "r", " ", "|", " ", "w", " ", "}">>,
     <<"$", "{", "x", "|", "w", "|", "-", "u", "|", "w", "}">>,
     <<"$", "{", "z", "|", "w", "|", "-", "l", "}">>,
     <<"$", "{", "l", "}">>,
     <<"a", "$", "{", "l", "}">>}

\* the objects of the calls: {a: "b"}, {a: "${z|-m}", b: {c: "a${x}"}},
\* {n: null} and ["${x}", "${z}${z|-m}"]
Literals ==
    {<<Obj(<<Prop(<<"a">>, Str(<<"b">>))>>)>>,
     <<Obj(<<Prop(<<"a">>, Str(<<"$", "{", "z", "|", "-", "m", "}">>)), Prop(<<"b">>, Ref(2))>>),
       Obj(<<Prop(<<"c">>, Str(<<"a", "$", "{", "x", "}">>))>>)>>,
     <<Obj(<<Prop(<<"n">>, Null)>>)>>,
     <<Arr(<<Str(<<"$", "{", "x", "}">>),
             Str(<<"$", "{", "z", "}", "$", "{", "z", "|", "-", "m", "}">>)>>)>>}

\* the keys of direct getValue calls
Keys ==
    {<<"x">>, <<"y">>, <<"z">>, <<"a">>, <<"p", ".", "q">>, <<"p", ".", "z", ".", "q">>,
     <<"p", ".", "x">>, <<"u", ".", "q">>}

\* the keywords given to registerModifier and to unregisterModifier
NewWords ==
    {<<<<"w">>>>, <<<<"W">>>>, <<<<"U", "P", "P", "E", "R">>>>,
     <<<<"n", "e", "w">>, <<"-", "m">>, <<"l", "a", "t", "e">>>>,
     <<<<"t", "w", "o">>, <<"T", "w", "o">>, <<"o", "n", "e">>>>}
OldWords ==
    {<<<<"W">>>>, <<<<"-", "D">>>>, <<<<"n", "o", "n", "e">>>>,
     <<<<"n", "o", "n", "e">>, <<"N", "e", "w">>, <<"u", "p", "p", "e", "r">>>>}

\* the callbacks given to registerModifier: def_callback of the tests, and
\* "not a function"
Callbacks == {Fn("def_callback"), Str(<<"n", "o">>)}

MaxCalls == 2
MaxRepositories == 3

Init ==
    /\ \E list \in StartRepositories, options \in ConstructorOptions :
          LET mi == construct(StartHeap, list, options)
          IN /\ _modifiers = mi.modifiers
             /\ _repositories = mi.repositories
             /\ _completeExpression = mi.completeExpression
             /\ _currentExpression = mi.currentExpression
             /\ _isOneMacro = mi.isOneMacro
             /\ _hasConstant = mi.hasConstant
             /\ _propertyPath = mi.propertyPath
             /\ _allowUndefined = mi.allowUndefined
             /\ _throwErrors = mi.throwErrors
             /\ errors = mi.errors
             /\ heap = mi.heap
    /\ call = NoCall
    /\ calls = 0

\* the calls, at most MaxCalls of them
ResolveString ==
    /\ calls < MaxCalls
    /\ \E e \in Expressions : ResolveValue(Str(e), NoOptions)
ResolveLiteral ==
    /\ calls < MaxCalls
    /\ \E literal \in Literals : ResolveObject(literal, NoOptions)
LookUp ==
    /\ calls < MaxCalls
    /\ \E k \in Keys : GetValue(Str(k))
AddRepositories ==
    /\ calls < MaxCalls
    /\ \E list \in MoreRepositories :
          /\ Len(_repositories) + Len(list) <= MaxRepositories
          /\ RegisterRepository(list)
ThrowErrors ==
    /\ calls < MaxCalls
    /\ \E b \in BOOLEAN : SetThrowErrors(b)
Register ==
    /\ calls < MaxCalls
    /\ \E words \in NewWords, callback \in Callbacks : RegisterModifier(words, callback)
Unregister ==
    /\ calls < MaxCalls
    /\ \E words \in OldWords : UnregisterModifier(words)

Next ==
    \/ ResolveString
    \/ ResolveLiteral
    \/ LookUp
    \/ AddRepositories
    \/ ThrowErrors
    \/ Register
    \/ Unregister

\* an instance and the calls made on it, one after the other
Spec == Init /\ [][Next]_vars

(***************************************************************************)
(* The first call on a new instance, for the expressions made of at most   *)
(* MaxParts parts and for the objects and arrays of two containers.        *)
(***************************************************************************)
MaxParts == 3

\* the parts: a letter, the escape character, the symbols, and whole macros
Parts ==
    {<<"a">>, <<escapeChar>>, defaultSymbols.macroBegin, defaultSymbols.macroEnd,
     defaultSymbols.modifierSeparator, <<"x">>,
     <<"$", "{", "x", "}">>, <<"$", "{", "e", "}">>, <<"$", "{", "z", "}">>,
     <<"$", "{", "r", "}">>}

\* the texts made of at most n parts
RECURSIVE Composed(_)
Composed(n) ==
    IF n = 0 THEN {<<>>}
    ELSE Composed(n - 1) \cup {t \o p : t \in Composed(n - 1), p \in Parts}

\* the text with an escape character before each of its characters
RECURSIVE EscapeAll(_)
EscapeAll(text) ==
    IF text = <<>> THEN <<>>
    ELSE <<escapeChar, Head(text)>> \o EscapeAll(Tail(text))

\* the text as a quoted literal: the key of a macro, followed by the letter a
Quoted(text) == <<"$", "{", "'">> \o text \o <<"'", "}", "a">>

\* the texts that are escaped, outside of a macro and inside of one
EscapedTexts ==
    {EscapeAll(t) : t \in Composed(MaxParts - 1)}
        \cup {Quoted(EscapeAll(t)) : t \in Composed(MaxParts - 2)}

Texts == Composed(MaxParts) \cup EscapedTexts \cup Expressions \cup MoreExpressions

\* the values of the properties and elements: strings without and with
\* macros, a number, null, and the second container
TreeValues ==
    {Str(<<"b">>), Str(<<escapeChar, "a">>), Str(<<"$", "{", "x", "}">>),
     Str(<<"a", "$", "{", "z", "}">>), Num(1), Null, Ref(2)}

\* {a: v1, s: v2} and {$template: v1, s: v2} and [v1, v2], each with the
\* second container {c: v3}
Trees ==
    {<<Obj(<<Prop(k, v1), Prop(<<"s">>, v2)>>), Obj(<<Prop(<<"c">>, v3)>>)>> :
        k \in {<<"a">>, defaultSymbols.siblingsTemplateKey},
        v1 \in TreeValues, v2 \in TreeValues, v3 \in TreeValues \ {Ref(2)}}
    \cup {<<Arr(<<v1, v2>>), Obj(<<Prop(<<"c">>, v3)>>)>> :
            v1 \in TreeValues, v2 \in TreeValues, v3 \in TreeValues \ {Ref(2)}}

\* the values of a property of a siblings-template and of a sibling
TemplateValues ==
    {Num(1234), Str(<<"b">>), Str(<<"$", "{", "x", "}">>), Null, Ref(4)}
SiblingValues ==
    {Num(4321), Str(<<"l">>), Bool(FALSE), Str(<<"$", "{", "x", "}">>), Null, Undefined, Ref(4)}

\* {$template: {port: tv}, p: sibling, u: undefined} with the template as the
\* first or as the last property, where the sibling is {}, {any: true} or
\* {port: sv}, each with the fourth container {r: "${^0}"}; and the container
\* {$template: {port: 1234}, p1: {}, p2: {port: 4321}}
Siblings ==
    LET template == Prop(defaultSymbols.siblingsTemplateKey, Ref(2))
        others == <<Prop(<<"p">>, Ref(3)), Prop(<<"u">>, Undefined)>>
        nested == Obj(<<Prop(<<"r">>, Str(<<"$", "{", "^", "0", "}">>))>>)
    IN {<<Obj(props), Obj(<<Prop(<<"p", "o", "r", "t">>, tv)>>), sibling, nested>> :
            props \in {<<template>> \o others, others \o <<template>>},
            tv \in TemplateValues,
            sibling \in {Obj(<<>>), Obj(<<Prop(<<"a", "n", "y">>, Bool(TRUE))>>)}
                        \cup {Obj(<<Prop(<<"p", "o", "r", "t">>, sv)>>) : sv \in SiblingValues}}
       \cup {<<Obj(<<template, Prop(<<"p", "1">>, Ref(3)), Prop(<<"p", "2">>, Ref(4))>>),
               Obj(<<Prop(<<"p", "o", "r", "t">>, Num(1234))>>),
               Obj(<<>>),
               Obj(<<Prop(<<"p", "o", "r", "t">>, Num(4321))>>)>>}

\* objects with shared and with cyclic references:
\*   {child: c, child2: c} with c = {url: "${x}", recursiveChild: c};
\*   a = {a: "${x}", self: a};
\*   {a: a} with a = {s: "a${z}", b: b} and b = {back: a, top: the root};
\*   {$template: t, p: s, q: s} with t = {port: "${x}", o: {k: "a${x}"}}, s = {};
\*   {$template: t, p: {}} with t = {port: 1, self: t};
\*   {p: {}, $template: t} with t = {up: the root}
Graphs ==
    {<<Obj(<<Prop(<<"c", "h", "i", "l", "d">>, Ref(2)), Prop(<<"c", "h", "i", "l", "d", "2">>, Ref(2))>>),
       Obj(<<Prop(<<"u", "r", "l">>, Str(<<"$", "{", "x", "}">>)),
             Prop(<<"r", "e", "c", "u", "r", "s", "i", "v", "e", "C", "h", "i", "l", "d">>, Ref(2))>>)>>,
     <<Obj(<<Prop(<<"a">>, Str(<<"$", "{", "x", "}">>)), Prop(<<"s", "e", "l", "f">>, Ref(1))>>)>>,
     <<Obj(<<Prop(<<"a">>, Ref(2))>>),
       Obj(<<Prop(<<"s">>, Str(<<"a", "$", "{", "z", "}">>)), Prop(<<"b">>, Ref(3))>>),
       Obj(<<Prop(<<"b", "a", "c", "k">>, Ref(2)), Prop(<<"t", "o", "p">>, Ref(1))>>)>>,
     <<Obj(<<Prop(defaultSymbols.siblingsTemplateKey, Ref(2)), Prop(<<"p">>, Ref(3)),
             Prop(<<"q">>, Ref(3))>>),
       Obj(<<Prop(<<"p", "o", "r", "t">>, Str(<<"$", "{", "x", "}">>)), Prop(<<"o">>, Ref(4))>>),
       Obj(<<>>),
       Obj(<<Prop(<<"k">>, Str(<<"a", "$", "{", "x", "}">>))>>)>>,
     <<Obj(<<Prop(defaultSymbols.siblingsTemplateKey, Ref(2)), Prop(<<"p">>, Ref(3))>>),
       Obj(<<Prop(<<"p", "o", "r", "t">>, Num(1)), Prop(<<"s", "e", "l", "f">>, Ref(2))>>),
       Obj(<<>>)>>,
     <<Obj(<<Prop(<<"p">>, Ref(3)), Prop(defaultSymbols.siblingsTemplateKey, Ref(2))>>),
       Obj(<<Prop(<<"u", "p">>, Ref(1))>>),
       Obj(<<>>)>>}

\* the options of the calls that are given some: {}, {include: []},
\* {exclude: ["a"]}, {include: [{path: "", property: "b"}]},
\* {exclude: ["c"], include: [{path: "b", property: "c"}]}, {bad: ...},
\* {exclude: ["a"], bad: ...} and {Exclude: ...}; and {include: [{path: "b.d",
\* property: "a"}]}, {include: [{path: "xxx", property: "none"}]},
\* {exclude: ["a"], include: [{path: "b", property: "a"}]},
\* {include: [{path: "b", property: "c"}, {path: "b", property: "a"}]} and
\* {include: [{path: "", property: ""}]}
OptionSets ==
    {Options(<<>>, <<>>, <<>>),
     Options(<<"include">>, <<>>, <<>>),
     Options(<<"exclude">>, <<<<"a">>>>, <<>>),
     Options(<<"include">>, <<>>, <<[path |-> <<>>, property |-> <<"b">>]>>),
     Options(<<"exclude", "include">>, <<<<"c">>>>, <<[path |-> <<"b">>, property |-> <<"c">>]>>),
     Options(<<"bad">>, <<>>, <<>>),
     Options(<<"exclude", "bad">>, <<<<"a">>>>, <<>>),
     Options(<<"Exclude">>, <<>>, <<>>),
     Options(<<"include">>, <<>>, <<[path |-> <<"b", ".", "d">>, property |-> <<"a">>]>>),
     Options(<<"include">>, <<>>, <<[path |-> <<"x", "x", "x">>, property |-> <<"n", "o", "n", "e">>]>>),
     Options(<<"exclude", "include">>, <<<<"a">>>>, <<[path |-> <<"b">>, property |-> <<"a">>]>>),
     Options(<<"include">>, <<>>, <<[path |-> <<"b">>, property |-> <<"c">>],
                                    [path |-> <<"b">>, property |-> <<"a">>]>>),
     Options(<<"include">>, <<>>, <<[path |-> <<>>, property |-> <<>>]>>)}

\* the object {a: "${x}", b: {a: "${x}", c: "a${x}", d: {a: "${x}", c: "${z}"}}, c: "b"}
DeepLiterals ==
    {<<Obj(<<Prop(<<"a">>, Str(<<"$", "{", "x", "}">>)), Prop(<<"b">>, Ref(2)),
             Prop(<<"c">>, Str(<<"b">>))>>),
       Obj(<<Prop(<<"a">>, Str(<<"$", "{", "x", "}">>)), Prop(<<"c">>, Str(<<"a", "$", "{", "x", "}">>)),
             Prop(<<"d">>, Ref(3))>>),
       Obj(<<Prop(<<"a">>, Str(<<"$", "{", "x", "}">>)), Prop(<<"c">>, Str(<<"$", "{", "z", "}">>))>>)>>}

\* the expressions of those calls that are no objects: "", "b", "${x}",
\* "a${z}", 123, true and undefined
OptionValues ==
    {Str(<<>>), Str(<<"b">>), Str(<<"$", "{", "x", "}">>), Str(<<"a", "$", "{", "z", "}">>),
     Num(123), Bool(TRUE), Undefined}

\* the expressions that are neither a string nor an object or array:
\* undefined, 0, 123, true, false and null
OtherValues == {Undefined, Num(0), Num(123), Bool(TRUE), Bool(FALSE), Null}

ResolveText ==
    /\ calls = 0
    /\ \E e \in Texts : ResolveValue(Str(e), NoOptions)
ResolveTree ==
    /\ calls = 0
    /\ \E literal \in Trees : ResolveObject(literal, NoOptions)

ResolveSiblings ==
    /\ calls = 0
    /\ \E literal \in Siblings : ResolveObject(literal, NoOptions)
ResolveGraph ==
    /\ calls = 0
    /\ \E literal \in Graphs : ResolveObject(literal, NoOptions)

ResolveOther ==
    /\ calls = 0
    /\ \E e \in OtherValues : ResolveValue(e, NoOptions)
ResolveValueWithOptions ==
    /\ calls = 0
    /\ \E e \in OptionValues, options \in OptionSets : ResolveValue(e, options)
ResolveObjectWithOptions ==
    /\ calls = 0
    /\ \E literal \in Literals \cup DeepLiterals, options \in OptionSets :
            ResolveObject(literal, options)

FirstCall ==
    \/ ResolveText
    \/ ResolveTree
    \/ ResolveSiblings
    \/ ResolveGraph
    \/ ResolveOther
    \/ ResolveValueWithOptions
    \/ ResolveObjectWithOptions

\* a new instance and its first call
SpecFirst == Init /\ [][FirstCall]_vars

(***************************************************************************)
(* The property path set by the owner of a new instance, and getValue for  *)
(* the keys that refer to it.                                              *)
(***************************************************************************)
\* the property paths: [], ["k"] and ["L0", "L1", "L2"]
Paths == {<<>>, <<<<"k">>>>, <<<<"L", "0">>, <<"L", "1">>, <<"L", "2">>>>}

\* the keys: the indicator followed by an index in the path or out of it,
\* by a text that is no number, by a blank, or by nothing
PathKeys ==
    {<<"^", "0">>, <<"^", "1">>, <<"^", "2">>, <<"^", "3">>, <<"^", "-", "0">>,
     <<"^", "-", "1">>, <<"^", "-", "3">>, <<"^", "-", "4">>, <<"^", " ", "1">>,
     <<"^", "x">>, <<"^", "1", "x">>, <<"^", "-">>, <<"^">>, <<"^", " ">>}

PathSet ==
    /\ calls < MaxCalls
    /\ \E path \in Paths : SetPropertyPath(path)
PathLookUp ==
    /\ calls < MaxCalls
    /\ \E k \in PathKeys : GetValue(Str(k))

\* {k: "${^0}", s: {c: "${^-1}", z: "a${z}"}, a: ["${^1}", ["${x}"]]},
\* {s: {o: "${o}", n: null}} and {r: "${p}", b: "${^0}"}
PathLiterals ==
    {<<Obj(<<Prop(<<"k">>, Str(<<"$", "{", "^", "0", "}">>)), Prop(<<"s">>, Ref(2)),
             Prop(<<"a">>, Ref(3))>>),
       Obj(<<Prop(<<"c">>, Str(<<"$", "{", "^", "-", "1", "}">>)),
             Prop(<<"z">>, Str(<<"a", "$", "{", "z", "}">>))>>),
       Arr(<<Str(<<"$", "{", "^", "1", "}">>), Ref(4)>>),
       Arr(<<Str(<<"$", "{", "x", "}">>)>>)>>,
     <<Obj(<<Prop(<<"s">>, Ref(2))>>),
       Obj(<<Prop(<<"o">>, Str(<<"$", "{", "o", "}">>)), Prop(<<"n">>, Null)>>)>>,
     <<Obj(<<Prop(<<"r">>, Str(<<"$", "{", "p", "}">>)),
             Prop(<<"b">>, Str(<<"$", "{", "^", "0", "}">>))>>)>>}

PathResolve ==
    /\ calls < MaxCalls
    /\ \E literal \in PathLiterals : ResolveObject(literal, NoOptions)

PathCall ==
    \/ PathSet
    \/ PathLookUp
    \/ PathResolve

\* a new instance, its property path, and the look-ups in it
SpecPath == Init /\ [][PathCall]_vars

(***************************************************************************)
(* The properties.  Each is stated on the call that the variable call      *)
(* records, after that call.                                               *)
(***************************************************************************)
\* the call is resolve(expression), without options, for a string; for an
\* object or array
ResolvesString == call.op = "resolve" /\ call.arg.t = "string" /\ ~call.options.given
ResolvesObject == call.op = "resolve" /\ call.literal # <<>> /\ ~call.options.given

\* the characters that the syntax of an expression gives a meaning to
SyntaxChars == {"$", "{", "}", "|", ":", "^", "'", "\"", "grave", " ", escapeChar}

\* a key that is nothing but a key of the repositories
IsPlainKey(key) == key # <<>> /\ \A i \in 1..Len(key) : key[i] \notin SyntaxChars

\* what the i-th repository of the instance yields for the key
Yields(i, key) == askRepository(heap, _repositories[i], key, split(key, <<".">>))

\* the first repository, in the order of the instance, that yields a
\* defined value for the key (0 when there is none), and that value
FirstYielding(key) ==
    LET hits == {i \in 1..Len(_repositories) : Yields(i, key).t # "undefined"}
    IN IF hits = {} THEN 0 ELSE CHOOSE i \in hits : \A j \in hits : i <= j
FirstDefined(key) ==
    IF FirstYielding(key) = 0 THEN Undefined ELSE Yields(FirstYielding(key), key)

\* the text is one macro with a plain key, and that key
IsPlainMacro(text) ==
    /\ Len(text) > 3
    /\ SubSeq(text, 1, 2) = defaultSymbols.macroBegin
    /\ SubSeq(text, Len(text), Len(text)) = defaultSymbols.macroEnd
    /\ IsPlainKey(SubSeq(text, 3, Len(text) - 1))
KeyOf(text) == SubSeq(text, 3, Len(text) - 1)

RECURSIVE ClosedAt(_, _, _)
ClosedAt(text, i, depth) ==
    IF i > Len(text) THEN 0
    ELSE IF text[i] = escapeChar THEN ClosedAt(text, i + 2, depth)
    ELSE IF substring(text, i - 1, i + 1) = defaultSymbols.macroBegin
    THEN ClosedAt(text, i + 2, depth + 1)
    ELSE IF <<text[i]>> = defaultSymbols.macroEnd
    THEN IF depth = 1 THEN i ELSE ClosedAt(text, i + 1, depth - 1)
    ELSE ClosedAt(text, i + 1, depth)

\* the text is exactly one macro: it begins with a macro-begin, and the
\* macro-end of that macro is its last character
SpansOneMacro(text) ==
    /\ Len(text) > 2
    /\ SubSeq(text, 1, 2) = defaultSymbols.macroBegin
    /\ ClosedAt(text, 3, 1) = Len(text)

\* C2: the first resolve of an instance on a string returns something that
\* is not a string, and leaves isOneMacro() true, only when the expression
\* given to resolve is exactly one macro that spans the whole string
C2_NativeOnlyForWholeMacro ==
    (ResolvesString /\ call.thrown = "none" /\ (call.ret.t # "string" \/ _isOneMacro))
    => SpansOneMacro(call.arg.s)

\* the text of a value in an expression: a string as it is, undefined as
\* the marker resultForUndefinedValues, any other value converted
TextOf(value) ==
    IF value.t = "undefined" THEN defaultSymbols.resultForUndefinedValues
    ELSE IF value.t = "string" THEN value.s
    ELSE stringOf(heap, value)

\* a text read as plain characters and macros ${k} with plain keys.  ok: it
\* is nothing else; literals and macros: how many of each; kept: the macros
\* with an undefined value while allowUndefined is false; again: a value's
\* text holds a macro-begin; text: every macro replaced by the text of its
\* value, the kept ones left as they are; marked: every macro replaced by
\* the text of its value
NoTemplate ==
    [ok |-> FALSE, literals |-> 0, macros |-> 0, kept |-> 0, again |-> FALSE,
     text |-> <<>>, marked |-> <<>>]
RECURSIVE Template(_)
Template(s) ==
    IF s = <<>>
    THEN [ok |-> TRUE, literals |-> 0, macros |-> 0, kept |-> 0, again |-> FALSE,
          text |-> <<>>, marked |-> <<>>]
    ELSE IF startsWith(s, defaultSymbols.macroBegin)
    THEN LET end == indexOf(s, defaultSymbols.macroEnd)
             key == SubSeq(s, 3, end)
             value == FirstDefined(key)
             keep == value.t = "undefined" /\ ~_allowUndefined
             rest == Template(substringFrom(s, end + 1))
         IN IF end < 3 \/ ~IsPlainKey(key) \/ ~rest.ok THEN NoTemplate
            ELSE [rest EXCEPT !.macros = @ + 1,
                              !.kept = IF keep THEN @ + 1 ELSE @,
                              !.again = @ \/ includes(TextOf(value), defaultSymbols.macroBegin),
                              !.text = (IF keep THEN SubSeq(s, 1, end + 1) ELSE TextOf(value)) \o @,
                              !.marked = TextOf(value) \o @]
    ELSE LET rest == Template(Tail(s))
         IN IF Head(s) \in SyntaxChars \/ ~rest.ok THEN NoTemplate
            ELSE [rest EXCEPT !.literals = @ + 1,
                              !.text = <<Head(s)>> \o @,
                              !.marked = <<Head(s)>> \o @]

\* the expression of the call is plain text with at least one character of
\* it outside of the macros, and at least one macro
HasMacrosInText ==
    /\ ResolvesString
    /\ Template(call.arg.s).ok
    /\ Template(call.arg.s).macros > 0
    /\ Template(call.arg.s).literals > 0

\* C3: in the first resolve of an instance on plain text with macros ${k}
\* in it, no value's text holding a macro-begin: each macro is replaced by
\* the text of its value (a string as it is, undefined as the marker, any
\* other value converted) and the text around is kept, but with
\* allowUndefined false a macro without a value stays as it is, one
\* diagnostic is recorded for it, and with throwErrors resolve then throws
C3_MacrosInTextBecomeText ==
    (HasMacrosInText /\ ~Template(call.arg.s).again)
    => /\ call.thrown = (IF _throwErrors /\ Template(call.arg.s).kept > 0 THEN "errors" ELSE "none")
       /\ call.thrown = "none" => call.ret = Str(Template(call.arg.s).text)
       /\ call.recorded = Template(call.arg.s).kept

\* "a${x}x" has become "a123x"
C3_Witness ==
    /\ ResolvesString
    /\ call.arg.s = <<"a", "$", "{", "x", "}", "x">>
    /\ call.ret = Str(<<"a", "1", "2", "3", "x">>)

\* C3 as the specification has it: every macro with text around it is
\* replaced by the text of its value, undefined by the marker, and the
\* result of resolve is a string
C3_AlwaysTheTextOfTheValue ==
    (HasMacrosInText /\ ~Template(call.arg.s).again)
    => /\ call.thrown = "none"
       /\ call.ret = Str(Template(call.arg.s).marked)

\* C4: a resolve call empties the errors list at its start if and only if
\* throwErrors is set; it never removes an entry otherwise: after the call
\* the list is the one before it (the empty one with throwErrors), followed
\* by the diagnostics of the call
C4_ErrorsResetOnlyWithThrowErrors ==
    call.op = "resolve"
    => LET kept == IF _throwErrors THEN <<>> ELSE call.before.errors
       IN /\ Len(errors) = Len(kept) + call.recorded
          /\ SubSeq(errors, 1, Len(kept)) = kept

\* with throwErrors off, a second resolve has added its diagnostic to the
\* one that was in the list
C4_Witness ==
    /\ call.op = "resolve"
    /\ ~_throwErrors
    /\ call.before.errors # <<>>
    /\ call.recorded > 0
    /\ Len(errors) = Len(call.before.errors) + call.recorded

\* C5: when resolve has scanned or walked its input, it throws for the
\* diagnostics exactly if throwErrors is set and the errors list is not
\* empty; what it throws then lists every diagnostic of the call; else it
\* throws nothing and returns its result
C5_ThrowsTheDiagnosticsAtTheEnd ==
    (call.op = "resolve" /\ call.thrown \in {"none", "errors"})
    => /\ (call.thrown = "errors") = (_throwErrors /\ errors # <<>>)
       /\ call.thrown = "errors"
            => /\ call.message.entries = errors
               /\ Len(errors) = call.recorded
               /\ call.message.title \in {"Error: ", "Errors (errors.length):"}
       /\ call.thrown = "none"
            => /\ call.message = NoMessage
               /\ call.arg.t \notin {"string", "undefined"} => call.ret = call.arg

\* resolve has thrown one failure that lists two diagnostics
C5_Witness ==
    /\ call.op = "resolve"
    /\ call.thrown = "errors"
    /\ Len(call.message.entries) = 2
    /\ call.recorded = 2

\* the indices 1..n in their order
UpTo(n) == [i \in 1..n |-> i]

Colliding ==
    {toLowerCase(call.words[i]) : i \in 1..Len(call.words)} \cap DOMAIN call.before.modifiers

\* C7: registerModifier throws whenever one of the given aliases, in lower
\* case, is in the registry already (the registration error when the
\* callback is a function), and every such alias still maps to the callback
\* it had before the call
C7_CollisionThrowsAndKeeps ==
    (call.op = "registerModifier" /\ Colliding # {})
    => /\ call.thrown # "none"
       /\ call.callback.t = "function" => call.thrown = "already registered"
       /\ \A k \in Colliding : k \in DOMAIN _modifiers /\ _modifiers[k] = call.before.modifiers[k]

\* "W" has been refused because "w" was registered by the call before
C7_Witness ==
    /\ call.op = "registerModifier"
    /\ call.words = <<<<"W">>>>
    /\ call.thrown = "already registered"
    /\ <<"w">> \in DOMAIN call.before.modifiers
    /\ <<"w">> \notin DOMAIN loadedModifiers

\* C8: unregisterModifier removes every given alias from the registry,
\* whatever its letter case, throws nothing, and returns true when one of
\* the aliases was in the registry and false when none was
C8_ReturnsWhetherRemoved ==
    call.op = "unregisterModifier"
    => /\ call.thrown = "none"
       /\ DOMAIN _modifiers = DOMAIN call.before.modifiers
                                 \ {toLowerCase(call.words[i]) : i \in 1..Len(call.words)}
       /\ call.ret = Bool(Colliding # {})

\* C9: in the first resolve of an instance, every text with an escape
\* character before each of its characters comes back as that text, outside
\* of a macro and as a quoted literal inside of one (there followed by the
\* letter a), and the escape character alone gives the empty string
C9_EscapedIsVerbatim ==
    (ResolvesString /\ call.thrown = "none")
    => /\ \A t \in Composed(MaxParts - 1) :
             call.arg.s = EscapeAll(t) => call.ret = Str(t)
       /\ \A t \in Composed(MaxParts - 2) :
             call.arg.s = Quoted(EscapeAll(t)) => call.ret = Str(t \o <<"a">>)
       /\ call.arg.s = <<escapeChar>> => call.ret = Str(<<>>)

\* the text without its escape characters: each is dropped and the
\* character after it is kept
RECURSIVE Unescaped(_)
Unescaped(s) ==
    IF s = <<>> THEN <<>>
    ELSE IF Head(s) = escapeChar
    THEN IF Len(s) = 1 THEN <<>> ELSE <<s[2]>> \o Unescaped(SubSeq(s, 3, Len(s)))
    ELSE <<Head(s)>> \o Unescaped(Tail(s))

\* the objects of a literal that are reached from those of the set S
RECURSIVE Reached(_, _)
Reached(literal, S) ==
    LET refs(i) == {j \in 1..Len(literal[i].props) : literal[i].props[j].v.t = "object"}
        more == UNION {{literal[i].props[j].v.n : j \in refs(i)} : i \in S}
                    \cap (1..Len(literal))
    IN IF more \subseteq S THEN S ELSE Reached(literal, S \cup more)

\* the values of the properties and elements of the objects reached from
\* the root of a literal, and their keys
ValuesIn(literal) ==
    UNION {{literal[i].props[j].v : j \in 1..Len(literal[i].props)} : i \in Reached(literal, {1})}
KeysIn(literal) ==
    UNION {{literal[i].props[j].k : j \in 1..Len(literal[i].props)} : i \in Reached(literal, {1})}

\* a string in the literal holds a macro-begin; a container of it has a
\* siblings-template; a property or element of it is null
HoldsMacro(literal) ==
    \E v \in ValuesIn(literal) : v.t = "string" /\ includes(v.s, defaultSymbols.macroBegin)
HoldsTemplate(literal) == defaultSymbols.siblingsTemplateKey \in KeysIn(literal)
HoldsNull(literal) == Null \in ValuesIn(literal)

\* the call has changed no object: those of the start are as they were, and
\* those of the argument are as they were written
Untouched == heap = StartHeap \o Placed(call.literal, Len(StartHeap))

\* C10: the first resolve of an instance on a string without macro-begin
\* returns the string without its escape characters (an equal string when
\* it has none); on an object or array in which no string holds a
\* macro-begin and no container has a siblings-template it returns the
\* same reference, or throws a TypeError when a property or element is
\* null; in each case no property or element is changed and no diagnostic
\* is recorded
C10_NoMacroBeginIsKept ==
    /\ (ResolvesString /\ ~includes(call.arg.s, defaultSymbols.macroBegin))
       => /\ call.thrown = "none"
          /\ call.ret = Str(Unescaped(call.arg.s))
          /\ call.recorded = 0
          /\ Untouched
    /\ (ResolvesObject /\ ~HoldsMacro(call.literal) /\ ~HoldsTemplate(call.literal))
       => /\ call.thrown = (IF HoldsNull(call.literal) THEN "TypeError" ELSE "none")
          /\ call.thrown = "none" => call.ret = call.arg
          /\ call.recorded = 0
          /\ Untouched

\* {a: "\a", s: {c: "b"}} has come back as it was, its escape character
\* included
C10_Witness ==
    /\ ResolvesObject
    /\ call.thrown = "none"
    /\ call.ret = call.arg
    /\ call.literal[1].props[1] = Prop(<<"a">>, Str(<<escapeChar, "a">>))
    /\ call.literal[1].props[2].v = Ref(2)
    /\ Untouched

\* C10 as the specification has it: an input without macro-begin comes
\* back unchanged, a string as an equal string and an object or array as
\* the same reference with nothing in it changed, and no diagnostic is
\* recorded
C10_NoMacroBeginIsUnchanged ==
    ((ResolvesString /\ ~includes(call.arg.s, defaultSymbols.macroBegin))
        \/ (ResolvesObject /\ ~HoldsMacro(call.literal)))
    => /\ call.thrown = "none"
       /\ call.ret = call.arg
       /\ call.recorded = 0
       /\ Untouched

\* a macro-begin followed by text without macro-end and without escape
\* character: the fragment of a macro that is never closed
IsOpenFragment(text) ==
    /\ startsWith(text, defaultSymbols.macroBegin)
    /\ \A i \in 1..Len(text) : <<text[i]>> # defaultSymbols.macroEnd /\ text[i] # escapeChar

\* the places at which the text splits into plain characters and complete
\* macros before, and the fragment of an open macro after
OpenSplits(text) ==
    {k \in 0..Len(text) : /\ Template(SubSeq(text, 1, k)).ok
                          /\ IsOpenFragment(SubSeq(text, k + 1, Len(text)))}
EndsInOpenMacro == ResolvesString /\ OpenSplits(call.arg.s) # {}
BeforeOpen == SubSeq(call.arg.s, 1, CHOOSE k \in OpenSplits(call.arg.s) : TRUE)
OpenFragment ==
    SubSeq(call.arg.s, 1 + (CHOOSE k \in OpenSplits(call.arg.s) : TRUE), Len(call.arg.s))

\* C11: in the first resolve of an instance on plain text and complete
\* macros ${k} followed by a macro that is never closed, the fragment from
\* that macro-begin to the end of the string stays in the result as it is,
\* the macros before it are replaced as they are without it, and the only
\* diagnostics are those of the macros before it
C11_OpenMacroStaysAsText ==
    (EndsInOpenMacro /\ ~Template(BeforeOpen).again)
    => /\ call.thrown = (IF _throwErrors /\ Template(BeforeOpen).kept > 0 THEN "errors" ELSE "none")
       /\ call.thrown = "none" => call.ret = Str(Template(BeforeOpen).text \o OpenFragment)
       /\ call.recorded = Template(BeforeOpen).kept

\* "${x}${a" has become "123${a" without a diagnostic
C11_Witness ==
    /\ ResolvesString
    /\ call.arg.s = <<"$", "{", "x", "}", "$", "{", "a">>
    /\ call.ret = Str(<<"1", "2", "3", "$", "{", "a">>)
    /\ call.recorded = 0

\* the value of a key that is a constant in single quotes, or a plain key
\* of the repositories
KeyValue(key) ==
    IF Len(key) >= 2 /\ key[1] = "'" /\ key[Len(key)] = "'"
    THEN Str(SubSeq(key, 2, Len(key) - 1))
    ELSE IF IsPlainKey(key) THEN FirstDefined(key)
    ELSE Undefined

\* a text of characters and complete macros, the keys of the macros being
\* such texts themselves, read from the inside to the outside.  ok: it is
\* nothing else, every macro has a defined value and no value's text holds
\* a macro-begin; text: every macro replaced by the text of its value
RECURSIVE Inside(_)
Inside(s) ==
    IF s = <<>> THEN [ok |-> TRUE, text |-> <<>>]
    ELSE IF startsWith(s, defaultSymbols.macroBegin)
    THEN LET end == ClosedAt(s, 3, 1)
             key == Inside(SubSeq(s, 3, end - 1))
             value == KeyValue(key.text)
             rest == Inside(SubSeq(s, end + 1, Len(s)))
         IN IF end = 0 THEN [ok |-> FALSE, text |-> <<>>]
            ELSE [ok |-> /\ key.ok
                          /\ rest.ok
                          /\ value.t # "undefined"
                          /\ ~includes(TextOf(value), defaultSymbols.macroBegin),
                  text |-> TextOf(value) \o rest.text]
    ELSE LET rest == Inside(Tail(s))
         IN [ok |-> rest.ok /\ Head(s) \notin (SyntaxChars \ {"'"}), text |-> <<Head(s)>> \o rest.text]

\* the key of the macro that the expression of the call is, as written
WrittenKey == SubSeq(call.arg.s, 3, Len(call.arg.s) - 1)

\* C12: in the first resolve of an instance, a macro whose key holds
\* macros, to any depth, is resolved from the inside to the outside: each
\* macro of the key is replaced by the text of its value, and the text that
\* results is the key of the enclosing macro.  When the expression is that
\* macro alone the value of that key is returned; when a letter stands
\* before the macro the text of the value follows the letter
C12_NestedKeysInsideOut ==
    /\ (ResolvesString /\ SpansOneMacro(call.arg.s)
           /\ includes(WrittenKey, defaultSymbols.macroBegin)
           /\ Inside(WrittenKey).ok
           /\ KeyValue(Inside(WrittenKey).text).t # "undefined"
           /\ ~includes(TextOf(KeyValue(Inside(WrittenKey).text)), defaultSymbols.macroBegin))
       => /\ call.thrown = "none"
          /\ call.ret = KeyValue(Inside(WrittenKey).text)
          /\ call.recorded = 0
    /\ (ResolvesString /\ Len(call.arg.s) > 1 /\ call.arg.s[1] \notin SyntaxChars
           /\ SpansOneMacro(Tail(call.arg.s))
           /\ includes(SubSeq(call.arg.s, 4, Len(call.arg.s)), defaultSymbols.macroBegin)
           /\ Inside(call.arg.s).ok)
       => /\ call.thrown = "none"
          /\ call.ret = Str(Inside(call.arg.s).text)
          /\ call.recorded = 0

\* "${${'p'}.${'q'}}" has given the value "v" of the key p.q
C12_Witness ==
    /\ ResolvesString
    /\ call.arg.s = <<"$", "{", "$", "{", "'", "p", "'", "}", ".", "$", "{", "'", "q", "'", "}", "}">>
    /\ call.ret = Str(<<"v">>)

\* the parts of the macro that the expression of the call is, between its
\* modifier-separators: the key, and the modifiers after it
WrittenParts == split(WrittenKey, defaultSymbols.modifierSeparator)

\* the keyword of a modifier as it is looked up, and its parameter
KeywordOf(part) ==
    toLowerCase(trim(substring(part, 0, indexOf(part, defaultSymbols.modifierParamSeparator))))
ParamOf(part) ==
    trim(substringFrom(part, indexOf(part, defaultSymbols.modifierParamSeparator) + 1))

\* a key that the oracle KeyValue reads: a constant in single quotes or a
\* plain key of the repositories
IsReadKey(key) ==
    \/ IsPlainKey(key)
    \/ Len(key) >= 2 /\ key[1] = "'" /\ key[Len(key)] = "'"
          /\ \A i \in 2..(Len(key) - 1) : key[i] \notin SyntaxChars

\* the expression of the call is one macro: a key and default modifiers
\* with their parameters, and nothing else
IsDefaultChain ==
    /\ ResolvesString
    /\ SpansOneMacro(call.arg.s)
    /\ ~includes(WrittenKey, defaultSymbols.macroBegin)
    /\ ~includes(WrittenKey, <<escapeChar>>)
    /\ Len(WrittenParts) >= 2
    /\ IsReadKey(trim(WrittenParts[1]))
    /\ \A i \in 2..Len(WrittenParts) :
          /\ includes(WrittenParts[i], defaultSymbols.modifierParamSeparator)
          /\ KeywordOf(WrittenParts[i]) \in {<<"-", "d">>, <<"d", "e", "f", "a", "u", "l", "t">>}
          /\ IsReadKey(ParamOf(WrittenParts[i]))

\* the value of the key (i = 1) and of the parameter of each default
ChainValue(i) ==
    KeyValue(IF i = 1 THEN trim(WrittenParts[1]) ELSE ParamOf(WrittenParts[i]))

\* the first defined one of these values, from the left, or undefined
ChainResult ==
    LET defined == {i \in 1..Len(WrittenParts) : ChainValue(i).t # "undefined"}
    IN IF defined = {} THEN Undefined
       ELSE ChainValue(CHOOSE i \in defined : \A j \in defined : i <= j)

\* C13: the first resolve of an instance on one macro with a key and
\* default modifiers only, when it throws nothing, returns the value of the
\* key when that is defined, else the value of the first default from the
\* left whose parameter has a defined value, else undefined (the macro as
\* it is written when allowUndefined is false); it throws only for
\* diagnostics, with throwErrors set
C13_FirstDefinedDefaultWins ==
    IsDefaultChain
    => /\ call.thrown = (IF _throwErrors /\ call.recorded > 0 THEN "errors" ELSE "none")
       /\ call.thrown = "none"
            => call.ret = (IF ChainResult.t = "undefined" /\ ~_allowUndefined
                           THEN call.arg ELSE ChainResult)

\* "${z|-d:y|-D:x}": the key has no value, and the first default's value
\* 321 is returned, not the second default's value
C13_Witness ==
    /\ IsDefaultChain
    /\ Len(WrittenParts) = 3
    /\ ChainValue(1).t = "undefined"
    /\ ChainValue(2) = Num(321)
    /\ ChainValue(3).t = "number" /\ ChainValue(3) # Num(321)
    /\ call.ret = Num(321)

\* the chain ends with a constant, and neither the key nor a default before
\* the constant has a value
EndsInFallback ==
    /\ IsDefaultChain
    /\ Len(WrittenParts) >= 3
    /\ \A i \in 1..(Len(WrittenParts) - 1) :
          IsPlainKey(IF i = 1 THEN trim(WrittenParts[1]) ELSE ParamOf(WrittenParts[i]))
             /\ ChainValue(i).t = "undefined"
    /\ ~IsPlainKey(ParamOf(WrittenParts[Len(WrittenParts)]))

IsMandatoryMacro ==
    /\ ResolvesString
    /\ SpansOneMacro(call.arg.s)
    /\ Len(WrittenParts) = 2
    /\ IsPlainKey(trim(WrittenParts[1]))
    /\ toLowerCase(trim(WrittenParts[2])) \in {<<"-", "m">>, <<"m", "a", "n", "d", "a", "t", "o", "r", "y">>}
MandatoryValue == FirstDefined(trim(WrittenParts[1]))

\* the diagnostics of the errors list that tell of a mandatory expression
\* without a value
MandatoryViolations ==
    {i \in 1..Len(errors) :
        errors[i].msgs[1] = Msg("Undefined result for mandatory expression.", <<>>)}

LooksUpPath == call.op = "getValue" /\ startsWith(call.arg.s, defaultSymbols.propertyPathIndicator)
PathRemainder == trim(Tail(call.arg.s))

\* the text is an integer as it is written: digits, after a sign or not
IsWrittenInteger(text) ==
    LET body == IF text # <<>> /\ text[1] \in {"-", "+"} THEN Tail(text) ELSE text
    IN body # <<>> /\ \A i \in 1..Len(body) : IsDigit(body[i])
WrittenInteger(text) ==
    IF text[1] = "-" THEN 0 - digitsToNat(Tail(text))
    ELSE IF text[1] = "+" THEN digitsToNat(Tail(text))
    ELSE digitsToNat(text)

\* the element of the property path that the index i names, from 0 at the
\* start or from -1 at the end; 0 when it names none
PathPlace(i) ==
    IF 0 <= i /\ i < Len(_propertyPath) THEN i + 1
    ELSE IF i < 0 /\ 0 - Len(_propertyPath) <= i THEN Len(_propertyPath) + i + 1
    ELSE 0

\* the diagnostics that the call has added which tell of an invalid
\* property-path-index
InvalidIndexTold ==
    {i \in (Len(call.before.errors) + 1)..Len(errors) :
        errors[i].msgs[1].m \in {"Invalid property-path-index.",
                                 "Invalid property-path-index. Path is empty.",
                                 "Invalid property-path-index. The index must be a number."}}

\* C16: getValue for the property-path indicator followed by an integer i
\* returns the element i of the path for 0 <= i < n and the element n+i for
\* -n <= i < 0; for every other integer and for every remainder that is no
\* integer it returns undefined and records exactly one diagnostic of an
\* invalid property-path-index; it never asks a repository
C16_PathIndexOrOneDiagnostic ==
    LooksUpPath
    => /\ call.thrown = "none"
       /\ call.consulted = <<>>
       /\ IF IsWrittenInteger(PathRemainder) /\ PathPlace(WrittenInteger(PathRemainder)) # 0
          THEN /\ call.ret = Str(_propertyPath[PathPlace(WrittenInteger(PathRemainder))])
               /\ InvalidIndexTold = {}
          ELSE /\ call.ret = Undefined
               /\ Cardinality(InvalidIndexTold) = 1

\* what holds of the program: as C16, but a remainder that is empty or
\* blank is taken for the index 0
PathIndexWithBlankAsZero ==
    LooksUpPath
    => /\ call.thrown = "none"
       /\ call.consulted = <<>>
       /\ call.recorded = Cardinality(InvalidIndexTold) + (IF call.before.hasConstant THEN 1 ELSE 0)
       /\ LET index == IF PathRemainder = <<>> THEN <<"0">> ELSE PathRemainder
          IN IF IsWrittenInteger(index) /\ PathPlace(WrittenInteger(index)) # 0
             THEN /\ call.ret = Str(_propertyPath[PathPlace(WrittenInteger(index))])
                  /\ InvalidIndexTold = {}
             ELSE /\ call.ret = Undefined
                  /\ Cardinality(InvalidIndexTold) = 1

\* the elements of a sequence
Range(f) == {f[i] : i \in DOMAIN f}

\* the objects as the call found them, the root of the argument among them,
\* and the siblings-template of the root
HeapBefore == StartHeap \o Placed(call.literal, Len(StartHeap))
RootId == Len(StartHeap) + 1
RootTemplate == ownGet(HeapBefore[RootId], defaultSymbols.siblingsTemplateKey)

\* the call is a resolve that has returned, on a container with a
\* siblings-template
WalksSiblings ==
    /\ ResolvesObject
    /\ call.thrown = "none"
    /\ toBooleanValue(RootTemplate)

\* a value that is a string, a number or a boolean; a value that the walk
\* does not change: one that is no string with a macro-begin or an escape
IsLeaf(v) == v.t \in {"string", "number", "boolean"}
IsSettled(v) ==
    v.t = "string" => ~includes(v.s, defaultSymbols.macroBegin) /\ escapeChar \notin Range(v.s)

\* the keys of the root other than the template key whose values are objects
SiblingKeys ==
    {HeapBefore[RootId].props[j].k : j \in
        {j \in 1..Len(HeapBefore[RootId].props) :
            /\ HeapBefore[RootId].props[j].k # defaultSymbols.siblingsTemplateKey
            /\ HeapBefore[RootId].props[j].v.t = "object"
            /\ HeapBefore[RootId].props[j].v.n # 0}}

\* what the sibling under the key s of the root had for the key k, and has
SiblingHad(s, k) == ownGet(HeapBefore[ownGet(HeapBefore[RootId], s).n], k)
SiblingHas(s, k) == ownGet(heap[ownGet(HeapBefore[RootId], s).n], k)

\* C17: after a resolve of a container with a siblings-template, every
\* object-valued sibling has each key of the template: a key that it lacked
\* has the value of the template (a new object for an object of the
\* template), a key for which it had a string, a number or a boolean has the
\* value that it had; a property of the container that is undefined is
\* undefined still
C17_TemplateFillsMissingKeys ==
    WalksSiblings
    => /\ \A s \in SiblingKeys :
            \A k \in Range(enumerableKeys(HeapBefore, RootTemplate)) :
                LET tv == jsGet(HeapBefore, RootTemplate, k)
                IN /\ (SiblingHad(s, k) = Undefined /\ IsLeaf(tv) /\ IsSettled(tv))
                        => SiblingHas(s, k) = tv
                   /\ (SiblingHad(s, k) = Undefined /\ tv.t = "object")
                        => /\ SiblingHas(s, k).t = "object"
                           /\ SiblingHas(s, k).n > Len(HeapBefore)
                   /\ (IsLeaf(SiblingHad(s, k)) /\ IsSettled(SiblingHad(s, k)))
                        => SiblingHas(s, k) = SiblingHad(s, k)
       /\ \A j \in 1..Len(HeapBefore[RootId].props) :
            HeapBefore[RootId].props[j].v = Undefined
                => heap[RootId].props[j] = HeapBefore[RootId].props[j]

\* a resolve of {$template: {port: 1234}, p1: {}, p2: {port: 4321}} has
\* returned: p1 has the port 1234 and p2 has the port 4321
C17_Witness ==
    /\ WalksSiblings
    /\ SiblingKeys = {<<"p", "1">>, <<"p", "2">>}
    /\ RootTemplate.n # 0
    /\ HeapBefore[RootTemplate.n].props = <<Prop(<<"p", "o", "r", "t">>, Num(1234))>>
    /\ SiblingHad(<<"p", "1">>, <<"p", "o", "r", "t">>) = Undefined
    /\ SiblingHas(<<"p", "1">>, <<"p", "o", "r", "t">>) = Num(1234)
    /\ SiblingHad(<<"p", "2">>, <<"p", "o", "r", "t">>) = Num(4321)
    /\ SiblingHas(<<"p", "2">>, <<"p", "o", "r", "t">>) = Num(4321)

\* no element of the sequence stands in it twice
NoneTwice(seq) == \A i, j \in 1..Len(seq) : seq[i] = seq[j] => i = j

\* an object of the literal lies on a cycle of references; the literal has
\* such an object
OnCycle(literal, i) ==
    \E j \in 1..Len(literal[i].props) :
        /\ literal[i].props[j].v.t = "object"
        /\ literal[i].props[j].v.n # 0
        /\ i \in Reached(literal, {literal[i].props[j].v.n})
HasCycle(literal) == \E i \in Reached(literal, {1}) : OnCycle(literal, i)

\* C18: a resolve of an object or array, with shared references, with
\* cycles or with siblings-templates, ends without a recursion that has no
\* end; it walks no container twice and interpolates no property twice
C18_EveryGraphWalkedOnce ==
    ResolvesObject
    => /\ call.thrown \notin {"RangeError", "endless"}
       /\ NoneTwice(call.walked)
       /\ NoneTwice(call.scanned)

\* what holds of the program: no container is walked twice and no property
\* interpolated twice, and the recursion has an end unless the argument has
\* both a cycle and a siblings-template
WalkedOnceUnlessCyclicTemplate ==
    ResolvesObject
    => /\ call.thrown # "endless"
       /\ NoneTwice(call.walked)
       /\ NoneTwice(call.scanned)
       /\ call.thrown = "RangeError" => HasCycle(call.literal) /\ HoldsTemplate(call.literal)

\* the call is a resolve that is given options; options with a key that is
\* not known
GivesOptions == call.op = "resolve" /\ call.options.given
HasUnknownOption == unknownOption(call.options) # ""

\* the call has thrown for its options, and has done nothing else: no
\* repository is consulted, no diagnostic recorded, no object changed
FailsForOptions ==
    /\ call.thrown = "options"
    /\ call.consulted = <<>>
    /\ call.recorded = 0
    /\ call.walked = <<>>
    /\ call.scanned = <<>>
    /\ Untouched

\* C19: a resolve with options that have a key other than exclude and
\* include, and a resolve of a string with any options, the empty ones
\* included, throws at once: no macro is interpolated and the argument is
\* not changed
C19_BadOptionsAlwaysThrow ==
    (GivesOptions /\ (HasUnknownOption \/ call.arg.t = "string")) => FailsForOptions

\* what holds of the program: as C19 when the expression is an object, an
\* array or a string; a number, a boolean or undefined is returned as it is
\* whatever the options are
BadOptionsThrowForObjectsAndStrings ==
    GivesOptions
    => /\ (call.arg.t = "object" /\ HasUnknownOption) => FailsForOptions
       /\ call.arg.t = "string" => FailsForOptions
       /\ call.arg.t \notin {"object", "string"}
            => /\ call.thrown = "none"
               /\ call.ret = call.arg

\* the value at the end of the chain that begins with the key: the value of
\* the key, or, when that is the text of one macro with a plain key, the
\* value at the end of the chain of that key
RECURSIVE ChainEnd(_)
ChainEnd(key) ==
    LET v == FirstDefined(key)
    IN IF v.t = "string" /\ IsPlainMacro(v.s) THEN ChainEnd(KeyOf(v.s)) ELSE v

\* the value of the key is the text of a macro, and its chain ends in a value
BeginsChain(key) ==
    /\ FirstDefined(key).t = "string"
    /\ IsPlainMacro(FirstDefined(key).s)
    /\ ChainEnd(key).t # "undefined"

\* the call is a resolve of the one macro ${k}, or of the text a${k}, where
\* the key k begins a chain
ResolvesChain == ResolvesString /\ IsPlainMacro(call.arg.s) /\ BeginsChain(KeyOf(call.arg.s))
ResolvesChainInText ==
    /\ ResolvesString
    /\ Len(call.arg.s) > 1
    /\ Head(call.arg.s) = "a"
    /\ IsPlainMacro(Tail(call.arg.s))
    /\ BeginsChain(KeyOf(Tail(call.arg.s)))

\* C20: a macro whose value is the text of a macro is interpolated again
\* until no macro remains: resolve("${r1}") returns "r4" where r1 is
\* "${r2}", r2 is "${r3}", r3 is "${r4}" and r4 is "r4"; so for every chain,
\* for a macro that is the whole expression and for one that stands in text
C20_ChainIsExpandedToItsEnd ==
    /\ ResolvesChain
        => /\ call.thrown = "none"
           /\ call.ret = ChainEnd(KeyOf(call.arg.s))
    /\ ResolvesChainInText
        => /\ call.thrown = "none"
           /\ call.ret = Str(<<"a">> \o stringOf(heap, ChainEnd(KeyOf(Tail(call.arg.s)))))

\* what holds of the program: a chain is followed to its end for a macro
\* that stands in text; a macro that is the whole expression returns the
\* first value of the chain, the text of a macro, as it is
ChainIsExpandedInTextOnly ==
    /\ ResolvesChain
        => /\ call.thrown = "none"
           /\ call.ret = FirstDefined(KeyOf(call.arg.s))
    /\ ResolvesChainInText
        => /\ call.thrown = "none"
           /\ call.ret = Str(<<"a">> \o stringOf(heap, ChainEnd(KeyOf(Tail(call.arg.s)))))

\* the call is a resolve of an object or array with options that are
\* accepted, and the walk has come to its end
WalksWithOptions ==
    /\ call.op = "resolve"
    /\ call.literal # <<>>
    /\ call.options.given
    /\ call.thrown \in {"none", "errors"}

\* the include entries of the call whose path is the path of a container;
\* the first of them, or 0
EntriesFor(path) ==
    {e \in 1..Len(call.options.include) : call.options.include[e].path = joinPath(path)}
FirstEntryFor(path) ==
    IF EntriesFor(path) = {} THEN 0
    ELSE CHOOSE e \in EntriesFor(path) : \A f \in EntriesFor(path) : e <= f

\* the property k of the container at the path is passed over: it is
\* excluded, or the first include entry for the path names another property
\* (an entry that names the empty property passes over nothing)
IsExcluded(k) == \E e \in 1..Len(call.options.exclude) : call.options.exclude[e] = k
PassedOver(path, k) ==
    \/ k = defaultSymbols.siblingsTemplateKey
    \/ IsExcluded(k)
    \/ /\ FirstEntryFor(path) # 0
       /\ call.options.include[FirstEntryFor(path)].property \notin {<<>>, k}

\* the strings with a macro-begin that the claim has processed, as pairs of
\* the object and the key, in the i-th object of the literal and below it
RECURSIVE ToProcess(_, _, _)
ToProcess(literal, i, path) ==
    LET taken == {j \in 1..Len(literal[i].props) : ~PassedOver(path, literal[i].props[j].k)}
        texts == {j \in taken : /\ literal[i].props[j].v.t = "string"
                                /\ includes(literal[i].props[j].v.s, defaultSymbols.macroBegin)}
        below == {j \in taken : literal[i].props[j].v.t = "object" /\ literal[i].props[j].v.n # 0}
    IN {<<i, literal[i].props[j].k>> : j \in texts}
       \cup UNION {ToProcess(literal, literal[i].props[j].v.n, Append(path, literal[i].props[j].k)) :
                     j \in below}

\* the strings that the call has interpolated, as such pairs
Processed ==
    {<<call.scanned[i][1].n - Len(StartHeap), call.scanned[i][2]>> : i \in 1..Len(call.scanned)}

\* every property that is not among those processed is as it was written
OthersKept ==
    \A i \in 1..Len(call.literal) : \A j \in 1..Len(call.literal[i].props) :
        <<i, call.literal[i].props[j].k>> \notin Processed
            => heap[Len(StartHeap) + i].props[j] = HeapBefore[Len(StartHeap) + i].props[j]

\* C21: in the walk of an object with options, a property that
\* options.exclude names is passed over at every level, neither interpolated
\* nor descended into; in a container whose dot-joined path is the path of
\* an include entry, only the property that the first such entry names is
\* processed (all, when it names the empty property); the containers of all
\* other paths are processed as without options; what is passed over is as
\* it was written
C21_ExcludeAndFirstIncludeFilter ==
    WalksWithOptions
    => /\ Processed = ToProcess(call.literal, 1, <<>>)
       /\ OthersKept

\* a resolve of the object with three levels and {include: [{path: "b",
\* property: "c"}, {path: "b", property: "a"}]} has interpolated a of the
\* root and c of b, and nothing else
C21_Witness ==
    /\ WalksWithOptions
    /\ call.literal \in DeepLiterals
    /\ Len(call.options.include) = 2
    /\ Processed = {<<1, <<"a">>>>, <<2, <<"c">>>>}
    /\ OthersKept

\* the paths of the containers of the literal, as pairs of object and path
RECURSIVE PathsBelow(_, _, _)
PathsBelow(literal, i, path) ==
    {<<i, path>>}
    \cup UNION {PathsBelow(literal, literal[i].props[j].v.n, Append(path, literal[i].props[j].k)) :
                  j \in {j \in 1..Len(literal[i].props) :
                            literal[i].props[j].v.t = "object" /\ literal[i].props[j].v.n # 0}}

\* C21 as it is stated: in a container whose path is the path of an include
\* entry, whichever entry it is, no property but the one that the entry
\* names is processed
C21_EveryIncludeEntryFilters ==
    WalksWithOptions
    => \A c \in PathsBelow(call.literal, 1, <<>>) : \A e \in EntriesFor(c[2]) :
          \A p \in Processed : p[1] = c[1] => p[2] = call.options.include[e].property

\* the diagnostics of the call that tell of a macro without a value
UndefinedTold ==
    {i \in (Len(errors) - call.recorded + 1)..Len(errors) :
        errors[i].msgs[1] = Msg("macro-value is undefined.", <<>>)}

\* the call is a resolve of plain text and macros ${k} with plain keys, at
\* least one macro, no value's text holding a macro-begin
ResolvesPlainMacros ==
    /\ ResolvesString
    /\ Template(call.arg.s).ok
    /\ Template(call.arg.s).macros > 0
    /\ ~Template(call.arg.s).again

\* the call is a resolve of one macro with modifiers whose value after the
\* modifiers is undefined: a key without a value that is mandatory, or that
\* has defaults none of which has a value
EndsUndefined ==
    \/ IsMandatoryMacro /\ MandatoryValue.t = "undefined"
    \/ IsDefaultChain /\ ChainResult.t = "undefined"
          /\ \A i \in 1..Len(WrittenParts) :
                IsPlainKey(IF i = 1 THEN trim(WrittenParts[1]) ELSE ParamOf(WrittenParts[i]))

\* C22: with allowUndefined false every macro whose value, after its
\* modifiers, is undefined records one diagnostic 'macro-value is
\* undefined.' and its text stays in the result, and with throwErrors the
\* call then throws; with allowUndefined true (the default) no such
\* diagnostic is recorded, and a macro without modifiers records none
C22_UndefinedToldOnlyIfNotAllowed ==
    /\ ResolvesPlainMacros
        => /\ Cardinality(UndefinedTold) = Template(call.arg.s).kept
           /\ call.recorded = Cardinality(UndefinedTold)
           /\ ~_allowUndefined
                => /\ call.thrown = (IF _throwErrors /\ Template(call.arg.s).kept > 0
                                     THEN "errors" ELSE "none")
                   /\ (call.thrown = "none" /\ Template(call.arg.s).kept > 0)
                        => call.ret = Str(Template(call.arg.s).text)
           /\ _allowUndefined => call.thrown = "none" /\ Template(call.arg.s).kept = 0
    /\ EndsUndefined
        => /\ Cardinality(UndefinedTold) = (IF _allowUndefined THEN 0 ELSE 1)
           /\ ~_allowUndefined
                => /\ call.thrown = (IF _throwErrors THEN "errors" ELSE "none")
                   /\ call.thrown = "none" => call.ret = call.arg

\* with allowUndefined false and throwErrors true, resolve("${y}") for a y
\* without a value has thrown its one diagnostic
C22_Witness ==
    /\ ResolvesString
    /\ call.arg.s = <<"$", "{", "y", "}">>
    /\ FirstDefined(<<"y">>).t = "undefined"
    /\ ~_allowUndefined
    /\ _throwErrors
    /\ call.thrown = "errors"
    /\ Cardinality(UndefinedTold) = 1
    /\ Len(errors) = 1

\* the name of a modifier as it is written in a part of a macro, without
\* its parameter
NameOf(part) ==
    IF includes(part, defaultSymbols.modifierParamSeparator)
    THEN trim(substring(part, 0, indexOf(part, defaultSymbols.modifierParamSeparator)))
    ELSE trim(part)

\* the names that change the case of a string, and the names that are not
\* registered
RaisesCase(name) == toLowerCase(name) \in {<<"-", "u">>, <<"u", "p", "p", "e", "r">>}
LowersCase(name) == toLowerCase(name) \in {<<"-", "l">>, <<"l", "o", "w", "e", "r">>}
IsUnknown(name) == toLowerCase(name) \notin DOMAIN _modifiers

\* the expression of the call is one macro: a plain key, and modifiers each
\* of which changes the case or is not registered, one at least of these
HasUnknownModifiers ==
    /\ ResolvesString
    /\ SpansOneMacro(call.arg.s)
    /\ ~includes(WrittenKey, defaultSymbols.macroBegin)
    /\ ~includes(WrittenKey, <<escapeChar>>)
    /\ Len(WrittenParts) >= 2
    /\ IsPlainKey(trim(WrittenParts[1]))
    /\ \A i \in 2..Len(WrittenParts) :
          LET name == NameOf(WrittenParts[i])
          IN name # <<>> /\ (RaisesCase(name) \/ LowersCase(name) \/ IsUnknown(name))
    /\ \E i \in 2..Len(WrittenParts) : IsUnknown(NameOf(WrittenParts[i]))

\* the value of the key after the modifiers up to the i-th part, from left
\* to right, those that are not registered changing nothing
RECURSIVE AfterModifiers(_)
AfterModifiers(i) ==
    IF i = 1 THEN FirstDefined(trim(WrittenParts[1]))
    ELSE LET v == AfterModifiers(i - 1)
             name == NameOf(WrittenParts[i])
         IN IF v.t # "string" \/ IsUnknown(name) THEN v
            ELSE IF RaisesCase(name) THEN Str(toUpperCase(v.s))
            ELSE Str(toLowerCase(v.s))

\* the names, in their order, that the macro has and that are not
\* registered; those that the diagnostics 'Unknown modifier' of the call name
RECURSIVE UnknownNames(_)
UnknownNames(i) ==
    IF i > Len(WrittenParts) THEN <<>>
    ELSE (IF IsUnknown(NameOf(WrittenParts[i])) THEN <<NameOf(WrittenParts[i])>> ELSE <<>>)
         \o UnknownNames(i + 1)
RECURSIVE UnknownTold(_)
UnknownTold(i) ==
    IF i > Len(errors) THEN <<>>
    ELSE (IF errors[i].msgs[1].m = "Unknown modifier" THEN <<errors[i].msgs[1].s>> ELSE <<>>)
         \o UnknownTold(i + 1)

\* C23: a modifier that is not registered (its name in lower case) does not
\* end the interpolation: for each one diagnostic 'Unknown modifier' is
\* recorded, in their order, the value passes it as it is, and the modifiers
\* after it are applied from left to right, each to the value of the one
\* before it
C23_UnknownModifierPassesValue ==
    HasUnknownModifiers
    => /\ UnknownTold(1) = UnknownNames(2)
       /\ call.thrown = (IF _throwErrors THEN "errors" ELSE "none")
       /\ call.recorded = Len(UnknownNames(2))
                          + (IF AfterModifiers(Len(WrittenParts)).t = "undefined" /\ ~_allowUndefined
                             THEN 1 ELSE 0)
       /\ call.thrown = "none"
            => call.ret = (IF AfterModifiers(Len(WrittenParts)).t = "undefined" /\ ~_allowUndefined
                           THEN call.arg ELSE AfterModifiers(Len(WrittenParts)))

\* "${r4|w|-u}" with r4 = "r4" has come to "R4", with one diagnostic for w
C23_Witness ==
    /\ HasUnknownModifiers
    /\ call.arg.s = <<"$", "{", "r", "4", "|", "w", "|", "-", "u", "}">>
    /\ FirstDefined(<<"r", "4">>) = Str(<<"r", "4">>)
    /\ call.thrown = "none"
    /\ call.ret = Str(<<"R", "4">>)
    /\ UnknownTold(1) = <<<<"w">>>>

\* the value of the key is a text that holds a macro of the key itself
RefersToItself(key) ==
    /\ FirstDefined(key).t = "string"
    /\ includes(FirstDefined(key).s, defaultSymbols.macroBegin \o key \o defaultSymbols.macroEnd)

\* C24: every resolve of a string comes to its end: the scan reaches the
\* end of the expression after finitely many steps, whatever the
\* repositories hold, also when the text of a value holds a macro-begin and
\* the scan goes back to the place of the macro
C24_EveryScanEnds ==
    ResolvesString => call.thrown # "endless"

\* what holds of the program: the scan comes to its end unless the macro of
\* a key whose value holds a macro of that key stands in text
ScanEndsUnlessValueRefersToItself ==
    (ResolvesString /\ call.thrown = "endless")
    => /\ Len(call.arg.s) > 1
       /\ IsPlainMacro(Tail(call.arg.s))
       /\ RefersToItself(KeyOf(Tail(call.arg.s)))

\* a key that sets the constant-produced flag: a text in quotes, or a
\* reference into the property path
SetsConstant(key) ==
    \/ key # <<>> /\ key[1] \in {"'", "\""} /\ key[Len(key)] = key[1]
    \/ startsWith(key, defaultSymbols.propertyPathIndicator)

\* the key that the i-th part of a macro has resolved: the key of the macro,
\* or the parameter of a default
ResolvedKey(parts, i) == IF i = 1 THEN trim(parts[1]) ELSE ParamOf(parts[i])

\* the parts are a key and modifiers with parameters that are registered as
\* the default modifier, without macros or escapes in them, and no value of
\* a key of them holds a macro-begin
IsFlatMacro(parts) ==
    /\ \A i \in 1..Len(parts) :
          /\ ~includes(parts[i], defaultSymbols.macroBegin)
          /\ escapeChar \notin Range(parts[i])
          /\ ResolvedKey(parts, i) # <<>>
          /\ ~includes(TextOf(FirstDefined(ResolvedKey(parts, i))), defaultSymbols.macroBegin)
    /\ \A i \in 2..Len(parts) :
          /\ includes(parts[i], defaultSymbols.modifierParamSeparator)
          /\ KeywordOf(parts[i]) \in DOMAIN _modifiers
          /\ _modifiers[KeywordOf(parts[i])] = Fn("default")

\* the keys of a macro for which 'Unused modifier-value after constant
\* value.' is due, from the i-th part on: those resolved after a key that
\* sets the flag
RECURSIVE UnusedIn(_, _, _)
UnusedIn(parts, i, flag) ==
    IF i > Len(parts) THEN <<>>
    ELSE (IF flag THEN <<ResolvedKey(parts, i)>> ELSE <<>>)
         \o UnusedIn(parts, i + 1, flag \/ SetsConstant(ResolvedKey(parts, i)))

\* a text read as plain characters and flat macros.  ok: it is nothing
\* else; unused: the keys for which the diagnostic is due, each macro
\* beginning with the flag cleared
RECURSIVE Flat(_)
Flat(s) ==
    IF s = <<>> THEN [ok |-> TRUE, macros |-> 0, unused |-> <<>>]
    ELSE IF startsWith(s, defaultSymbols.macroBegin)
    THEN LET end == indexOf(s, defaultSymbols.macroEnd)
             parts == split(SubSeq(s, 3, end), defaultSymbols.modifierSeparator)
             rest == Flat(substringFrom(s, end + 1))
         IN IF end < 3 \/ ~IsFlatMacro(parts) \/ ~rest.ok
            THEN [ok |-> FALSE, macros |-> 0, unused |-> <<>>]
            ELSE [rest EXCEPT !.macros = @ + 1, !.unused = UnusedIn(parts, 1, FALSE) \o @]
    ELSE LET rest == Flat(Tail(s))
         IN IF Head(s) \in SyntaxChars THEN [ok |-> FALSE, macros |-> 0, unused |-> <<>>]
            ELSE rest

\* the keys that the diagnostics 'Unused modifier-value after constant
\* value.' of the call name, in their order
RECURSIVE UnusedTold(_)
UnusedTold(i) ==
    IF i > Len(errors) THEN <<>>
    ELSE (IF errors[i].msgs[1].m = "Unused modifier-value after constant value."
          THEN <<errors[i].msgs[2].s>> ELSE <<>>)
         \o UnusedTold(i + 1)

\* the value of the first part of the one macro of the call, from the left,
\* whose key has a value, or undefined
FlatValue ==
    LET defined == {i \in 1..Len(WrittenParts) :
                      KeyValue(ResolvedKey(WrittenParts, i)).t # "undefined"}
    IN IF defined = {} THEN Undefined
       ELSE KeyValue(ResolvedKey(WrittenParts, CHOOSE i \in defined : \A j \in defined : i <= j))

\* C25: in a resolve of text and macros with defaults, whatever a call
\* before it has left: within one macro each key that is resolved after a
\* quoted text or a reference into the property path records one diagnostic
\* 'Unused modifier-value after constant value.', and no key else does, so
\* that a constant of one macro, or of an expression before, causes none in
\* another; the key is resolved all the same, and its value is the value of
\* the macro when no part before it has one
C25_UnusedOnlyAfterConstantInSameMacro ==
    (ResolvesString /\ Flat(call.arg.s).ok)
    => /\ UnusedTold(Len(errors) - call.recorded + 1) = Flat(call.arg.s).unused
       /\ (SpansOneMacro(call.arg.s) /\ call.thrown = "none" /\ FlatValue.t # "undefined")
            => call.ret = FlatValue

\* after a call that has left the flag set, "${z|-d:'c'|-d:x|-d:y}" has
\* recorded no diagnostic for z and for 'c', and one for x and one for y
C25_Witness ==
    /\ ResolvesString
    /\ call.before.hasConstant
    /\ Flat(call.arg.s).ok
    /\ UnusedTold(Len(errors) - call.recorded + 1) = <<<<"x">>, <<"y">>>>

\* C26: the state of one call - the expression, the macro that is being
\* resolved, the isOneMacro flag and the constant-produced flag - is gone
\* when resolve has returned: the fields are as in a new instance, and a
\* getValue call after it records no diagnostic for a key that is no
\* constant
C26_TransientStateIsDiscarded ==
    /\ call.op = "resolve"
        => /\ _completeExpression = Undefined
           /\ _currentExpression = Undefined
           /\ ~_isOneMacro
           /\ ~_hasConstant
    /\ (call.op = "getValue" /\ IsPlainKey(call.arg.s)) => call.recorded = 0

\* what holds of the program: a resolve of a string leaves the expression
\* in its field, and when it returns the value of a macro that is the whole
\* expression it leaves that macro and the flag isOneMacro as well; the
\* constant-produced flag is as the last macro has left it, and a getValue
\* call that finds it set records a diagnostic
TransientStateIsLeft ==
    /\ (ResolvesString /\ call.thrown # "endless")
        => /\ _completeExpression = call.arg
           /\ (SpansOneMacro(call.arg.s) /\ call.recorded = 0 /\ call.ret # call.arg)
                => _isOneMacro /\ _currentExpression = call.arg
    /\ (call.op = "getValue" /\ IsPlainKey(call.arg.s))
        => call.recorded = (IF call.before.hasConstant THEN 1 ELSE 0)

\* the place in the batch of the first alias that, in lower case, the
\* registry held before the call or that stands in the batch before it; 0
\* when there is none
FirstFailing ==
    LET failing == {i \in 1..Len(call.words) :
                      \/ toLowerCase(call.words[i]) \in DOMAIN call.before.modifiers
                      \/ \E j \in 1..(i - 1) : toLowerCase(call.words[j]) = toLowerCase(call.words[i])}
    IN IF failing = {} THEN 0 ELSE CHOOSE i \in failing : \A j \in failing : i <= j

\* the aliases, in lower case, that stand in the batch before that place
RegisteredBefore ==
    {toLowerCase(call.words[j]) :
        j \in 1..(IF FirstFailing = 0 THEN Len(call.words) ELSE FirstFailing - 1)}

\* C27: registerModifier tests the aliases one by one: when it fails at the
\* i-th alias, the aliases before it stay registered with the new callback,
\* and nothing else of the registry is changed, so that no alias from the
\* i-th on is registered by the call; when the callback is no function it
\* fails before it registers any alias, and the registry is as it was
C27_RegistersUpToFirstCollision ==
    call.op = "registerModifier"
    => IF call.callback.t # "function"
       THEN /\ call.thrown = "TypeError"
            /\ _modifiers = call.before.modifiers
       ELSE /\ call.thrown = (IF FirstFailing = 0 THEN "none" ELSE "already registered")
            /\ DOMAIN _modifiers = DOMAIN call.before.modifiers \cup RegisteredBefore
            /\ \A k \in DOMAIN _modifiers :
                  _modifiers[k] = (IF k \in RegisteredBefore THEN call.callback
                                   ELSE call.before.modifiers[k])

\* registerModifier(["new", "-m", "late"], def_callback) has failed at "-m":
\* "new" is registered and "late" is not
C27_Witness ==
    /\ call.op = "registerModifier"
    /\ call.callback.t = "function"
    /\ Len(call.words) = 3
    /\ FirstFailing = 2
    /\ call.thrown = "already registered"
    /\ <<"n", "e", "w">> \notin DOMAIN call.before.modifiers
    /\ <<"l", "a", "t", "e">> \notin DOMAIN call.before.modifiers
    /\ <<"n", "e", "w">> \in DOMAIN _modifiers
    /\ _modifiers[<<"n", "e", "w">>] = call.callback
    /\ <<"l", "a", "t", "e">> \notin DOMAIN _modifiers

\* the value that the first n segments of a key lead to from a root among
\* the objects h; nothing is read beyond undefined or null
RECURSIVE ValueAt(_, _, _, _)
ValueAt(h, root, segments, n) ==
    IF n = 0 THEN root
    ELSE LET before == ValueAt(h, root, segments, n - 1)
         IN IF IsNullish(before) THEN before ELSE jsGet(h, before, segments[n])

\* what the i-th repository has for the key: a callback is given the whole
\* key, a mapping is read at the key when it has no dot and segment by
\* segment when it has, and has nothing when a segment is undefined
Found(i, key) ==
    LET repository == _repositories[i]
        segments == split(key, <<".">>)
    IN IF repository.t = "function" THEN repositoryCallback(repository.s[1], key)
       ELSE IF Len(segments) = 1 THEN jsGet(heap, repository, key)
       ELSE IF \E n \in 1..Len(segments) : ValueAt(heap, repository, segments, n).t = "undefined"
       THEN Undefined
       ELSE ValueAt(heap, repository, segments, Len(segments))

\* the repositories that have something for the key
Finders(key) == {i \in 1..Len(_repositories) : Found(i, key).t # "undefined"}

\* C28: getValue of a plain key asks the repositories in their order: a
\* callback is given the whole key, dots included; a mapping is read
\* directly for a key without a dot and segment by segment from its root
\* for a key with dots, and as soon as a segment is undefined the mapping
\* has nothing and the next repository is asked; the first repository that
\* has something ends the search with its value (a segment that is null
\* ends the walk of its mapping with null as the value)
C28_DottedKeyIsWalkedBySegments ==
    (call.op = "getValue" /\ call.arg.t = "string" /\ IsPlainKey(call.arg.s))
    => /\ call.thrown = "none"
       /\ IF Finders(call.arg.s) = {}
          THEN /\ call.ret = Undefined
               /\ call.consulted = [i \in 1..Len(_repositories) |-> i]
          ELSE LET first == CHOOSE i \in Finders(call.arg.s) :
                                \A j \in Finders(call.arg.s) : i <= j
               IN /\ call.ret = Found(first, call.arg.s)
                  /\ call.consulted = [i \in 1..first |-> i]

\* getValue("p.q") on [{p: {}, u: null}, {..., p: {q: "v"}}]: the first
\* mapping has p but no q in it, the second one yields "v"
C28_Witness ==
    /\ call.op = "getValue"
    /\ call.arg = Str(<<"p", ".", "q">>)
    /\ _repositories = <<Ref(5), Ref(1)>>
    /\ ValueAt(heap, Ref(5), <<<<"p">>, <<"q">>>>, 1) = Ref(2)
    /\ ValueAt(heap, Ref(5), <<<<"p">>, <<"q">>>>, 2) = Undefined
    /\ call.consulted = <<1, 2>>
    /\ call.ret = Str(<<"v">>)

\* a segment that is null ends the walk, and its mapping ends the search
NullSegmentIsTheValue ==
    (call.op = "getValue" /\ call.arg = Str(<<"u", ".", "q">>)
        /\ Len(_repositories) > 0 /\ _repositories[1] = Ref(5))
    => call.ret = Null /\ call.consulted = <<1>>

\* a value that is neither a string nor an object or array
IsOtherValue(v) == v.t # "string" /\ (v.t = "object" => v = Null)

\* C29: resolve returns an argument that is neither a string nor an object
\* or array as it is, null included, and throws nothing; and a walk of an
\* object or array never ends with a TypeError for a property or element
\* that is such a value
C29_OtherValuesPassThrough ==
    /\ (call.op = "resolve" /\ ~call.options.given /\ IsOtherValue(call.arg))
       => /\ call.thrown = "none"
          /\ call.ret = call.arg
    /\ ResolvesObject => call.thrown # "TypeError"

\* what the program does: undefined, numbers and booleans are returned as
\* they are, null as the argument ends the call with a TypeError, and a walk
\* ends with a TypeError only when a property or element is null
OtherValuesPassThroughButNull ==
    /\ (call.op = "resolve" /\ ~call.options.given /\ IsOtherValue(call.arg))
       => IF call.arg = Null THEN call.thrown = "TypeError"
          ELSE call.thrown = "none" /\ call.ret = call.arg /\ call.recorded = 0
    /\ (ResolvesObject /\ call.thrown = "TypeError") => HoldsNull(call.literal)

\* call.stacks[i] holds the stack and the objects as the i-th interpolation
\* of a property has found them; the keys that it has found on the
\* stack above the elements that the call has started with
KeysAbove(i) ==
    SubSeq(call.stacks[i][1], Len(call.before.propertyPath) + 1, Len(call.stacks[i][1]))

\* C30: a walk pops what it has pushed on _propertyPath: when a property or
\* element is interpolated the stack is the stack of the start of the call
\* followed by the keys and indices that lead from the argument to it, and
\* after a resolve that returns, or that throws the diagnostics it has
\* collected, the stack is what it was before the call
C30_PathIsPushedAndPopped ==
    call.op = "resolve"
    => /\ Len(call.stacks) = Len(call.scanned)
       /\ \A i \in 1..Len(call.stacks) :
             /\ Len(call.stacks[i][1]) > Len(call.before.propertyPath)
             /\ SubSeq(call.stacks[i][1], 1, Len(call.before.propertyPath)) = call.before.propertyPath
             /\ KeysAbove(i)[Len(KeysAbove(i))] = call.scanned[i][2]
             /\ ValueAt(call.stacks[i][2], call.arg, KeysAbove(i), Len(KeysAbove(i)) - 1)
                    = call.scanned[i][1]
       /\ call.thrown \in {"none", "errors"} => _propertyPath = call.before.propertyPath

\* resolve({k: "${^0}", s: {c: "${^-1}", z: "a${z}"}, a: ["${^1}", ["${x}"]]})
\* with the stack ["L0", "L1", "L2"]: "${x}" has been interpolated with the
\* stack ["L0", "L1", "L2", "a", "1", "0"], ${^-1} has become "c", and the
\* stack is ["L0", "L1", "L2"] again
C30_Witness ==
    /\ call.op = "resolve"
    /\ Len(call.literal) = 4
    /\ call.thrown \in {"none", "errors"}
    /\ call.before.propertyPath = <<<<"L", "0">>, <<"L", "1">>, <<"L", "2">>>>
    /\ Len(call.stacks) = 5
    /\ call.stacks[5][1] = <<<<"L", "0">>, <<"L", "1">>, <<"L", "2">>, <<"a">>, <<"1">>, <<"0">>>>
    /\ ValueAt(heap, call.arg, <<<<"s">>, <<"c">>>>, 2) = Str(<<"c">>)
    /\ ValueAt(heap, call.arg, <<<<"k">>>>, 1) = Str(<<"L", "0">>)
    /\ _propertyPath = call.before.propertyPath

\* a walk that ends with a TypeError or a RangeError leaves on the stack
\* what it had pushed
StackIsLeftOnlyByAThrow ==
    (call.op = "resolve" /\ _propertyPath # call.before.propertyPath)
    => /\ call.thrown \in {"TypeError", "RangeError", "endless"}
       /\ Len(_propertyPath) > Len(call.before.propertyPath)

====
